---- MODULE Spec2Model ----
(***************************************************************************)
(* Drug-drug interaction analysis: the /predict route (pair expansion,     *)
(* worst-case selection, cross-pair aggregation), the pair predictor and   *)
(* the Gemini refinement layer with its local fallback.                    *)
(*                                                                         *)
(* A Python string is a sequence of atoms.  An atom is either whitespace   *)
(* (the blank " " or the tab) or an opaque piece of text; lower(),         *)
(* strip(), the regex \s+ and the substring test act atom by atom.         *)
(***************************************************************************)
EXTENDS Integers, Sequences, FiniteSets, TLC

VARIABLES
    request,          \* PredictionRequest: drug1..drug5, each <<>> (None) or <<name>>
    gemini_model,     \* GeminiService.model: "none" or "configured"
    explainer_data,   \* the side-effects dataset: "missing", "loaded" or "broken"
    pc,               \* position of the handler
    drugs,            \* predict.py: drugs
    unique_drugs,     \* predict.py: unique_drugs
    pairs,            \* predict.py: pairs
    idx,              \* index of the next pair of the loop over pairs
    results,          \* predict.py: results
    outcome,          \* what the handler returned or raised
    predict_calls,    \* history: the pairs ddi_service.predict_interaction was called with
    enrich_calls,     \* history: number of calls of model.generate_content
    refine_call,      \* refinement layer: the arguments of validate_and_refine
    enrichment,       \* refinement layer: what the external call does
    refined,          \* refinement layer: <<>> or <<the dict validate_and_refine returned>>
    sel_input,        \* selector: the list of pair results handed to sorted()
    sel_sorted,       \* selector: sorted_results
    name_in,          \* normalization: the argument of normalize_drug_name
    name_out,         \* normalization: <<>> or <<the string it returned>>
    prompt,           \* refinement layer: <<>> or <<the input_summary sent to Gemini>>
    raw_request,      \* <<>> or <<the JSON body of a request, before PredictionRequest>>
    earlier,          \* history: <<>> or <<the analysis of the body sent before this one>>
    predict_in,       \* pair predictor: <<>> or the call [drug1, drug2, proba]
    predict_out,      \* pair predictor: <<>> or <<the response it built>>
    pending_registrations,  \* pending_registration_service: email -> pending data
    users,            \* the users table: the emails that have an account
    now,              \* datetime.utcnow(), in minutes
    issued,           \* history: email -> the OTP generated last for it
    last_call,        \* history: the auth operation that ran last
    drug_analytics,   \* the drug_analytics table: drug_name -> its row
    committed         \* history: the authenticated predictions, committed or rolled back

vars == <<request, gemini_model, explainer_data, pc, drugs, unique_drugs, pairs, idx,
          results, outcome, predict_calls, enrich_calls, refine_call, enrichment,
          refined, sel_input, sel_sorted, name_in, name_out, prompt, raw_request,
          earlier, predict_in, predict_out, pending_registrations, users, now, issued, last_call, drug_analytics,
          committed>>

predictVars == <<predict_in, predict_out>>

authVars == <<pending_registrations, users, now, issued, last_call>>

analyticsVars == <<drug_analytics, committed>>

\* No registration and no persistence is going on.
AuthIdle ==
    /\ pending_registrations = <<>> /\ users = {} /\ now = 0
    /\ issued = <<>> /\ last_call = <<>>

AnalyticsIdle == drug_analytics = <<>> /\ committed = <<>>

PredictIdle == predict_in = <<>> /\ predict_out = <<>>

Elsewhere ==
    /\ raw_request = <<>> /\ earlier = <<>>
    /\ PredictIdle /\ AuthIdle /\ AnalyticsIdle

(***************************************************************************)
(* Strings                                                                 *)
(***************************************************************************)

\* Code-point order of the atoms that occur in drug names.
Collation == <<"\t", " ", "A", "B", "C", "D", "E", "a", "b", "c", "d", "e">>

AtomRank(c) == CHOOSE i \in 1..Len(Collation) : Collation[i] = c

IsSpace(c) == c \in {" ", "\t"}

\* str.lower(), atom by atom.
LowerAtom(c) ==
    CASE c = "A" -> "a"
      [] c = "B" -> "b"
      [] c = "C" -> "c"
      [] c = "D" -> "d"
      [] c = "E" -> "e"
      [] c = "Unknown" -> "unknown"
      [] c = "Not Available" -> "not available"
      [] c = "No specific" -> "no specific"
      [] OTHER -> c

Lower(s) == [i \in 1..Len(s) |-> LowerAtom(s[i])]

RECURSIVE LStrip(_)
LStrip(s) == IF s # <<>> /\ IsSpace(Head(s)) THEN LStrip(Tail(s)) ELSE s

RECURSIVE RStrip(_)
RStrip(s) ==
    IF s # <<>> /\ IsSpace(s[Len(s)]) THEN RStrip(SubSeq(s, 1, Len(s) - 1)) ELSE s

\* A strip that removes at most one whitespace atom at each end.
StripOne(s) ==
    LET l == IF s # <<>> /\ IsSpace(Head(s)) THEN Tail(s) ELSE s
    IN  IF l # <<>> /\ IsSpace(l[Len(l)]) THEN SubSeq(l, 1, Len(l) - 1) ELSE l

\* str.strip()
Strip(s) == RStrip(LStrip(s))

\* re.sub(r'\s+', ' ', s): every run of whitespace becomes one blank, and the text
\* between two runs is copied as it is.
RECURSIVE CollapseSpaces(_)
CollapseSpaces(s) ==
    IF s = <<>> THEN <<>>
    ELSE IF IsSpace(Head(s))
         THEN <<" ">> \o CollapseSpaces(LStrip(s))
         ELSE LET spaces == {i \in 1..Len(s) : IsSpace(s[i])}
                  next == IF spaces = {} THEN Len(s) + 1
                          ELSE CHOOSE i \in spaces : \A j \in spaces : i <= j
              IN  SubSeq(s, 1, next - 1) \o CollapseSpaces(SubSeq(s, next, Len(s)))

\* Python's < on str: lexicographic by code point.
RECURSIVE StrLess(_, _)
StrLess(s, t) ==
    IF t = <<>> THEN FALSE
    ELSE IF s = <<>> THEN TRUE
    ELSE IF Head(s) = Head(t) THEN StrLess(Tail(s), Tail(t))
    ELSE AtomRank(Head(s)) < AtomRank(Head(t))

\* sorted(list(set(xs))) for a set of strings.
RECURSIVE SortedList(_)
SortedList(S) ==
    IF S = {} THEN <<>>
    ELSE LET m == CHOOSE x \in S : \A y \in S \ {x} : StrLess(x, y)
         IN  <<m>> \o SortedList(S \ {m})

Range(f) == {f[i] : i \in DOMAIN f}

(***************************************************************************)
(* utils/preprocess.py                                                     *)
(***************************************************************************)

normalize_drug_name(name) ==
    IF name = <<>> THEN <<>> ELSE CollapseSpaces(Strip(Lower(name)))

MaxDrugNameLen == 200

\* A validation without the limit on the length of a name.
AcceptLongNames(drug1, drug2) ==
    /\ drug1 # <<>> /\ Strip(drug1) # <<>>
    /\ drug2 # <<>> /\ Strip(drug2) # <<>>
    /\ normalize_drug_name(drug1) # normalize_drug_name(drug2)

\* A validation that lets every pair through.
AcceptEveryPair(drug1, drug2) == TRUE

\* Returns is_valid.
validate_drug_input(drug1, drug2) ==
    IF drug1 = <<>> \/ Strip(drug1) = <<>> THEN FALSE
    ELSE IF drug2 = <<>> \/ Strip(drug2) = <<>> THEN FALSE
    ELSE IF normalize_drug_name(drug1) = normalize_drug_name(drug2) THEN FALSE
    ELSE IF Len(drug1) > MaxDrugNameLen \/ Len(drug2) > MaxDrugNameLen THEN FALSE
    ELSE TRUE

\* A risk level whose High band starts above 0.8.
RiskLevelAboveThreshold(confidence) ==
    IF confidence > 800 THEN "High"
    ELSE IF confidence >= 500 THEN "Moderate"
    ELSE "Low"

\* calculate_risk_level: probabilities are in thousandths (0..1000).
calculate_risk_level(confidence) ==
    IF confidence >= 800 THEN "High"
    ELSE IF confidence >= 500 THEN "Moderate"
    ELSE "Low"

\* str.title(), atom by atom: the first atom of each word is upper-cased.
UpperAtom(c) ==
    CASE c = "a" -> "A"
      [] c = "b" -> "B"
      [] c = "c" -> "C"
      [] c = "d" -> "D"
      [] c = "e" -> "E"
      [] OTHER -> c

Title(s) ==
    [i \in 1..Len(s) |->
        IF IsSpace(s[i]) THEN s[i]
        ELSE IF i = 1 \/ IsSpace(s[i - 1]) THEN UpperAtom(s[i])
        ELSE LowerAtom(s[i])]

\* f"{confidence*100:.1f}%"
Percent(confidence) == <<ToString(confidence \div 10), ".", ToString(confidence % 10), "%">>

generate_interaction_summary(drug1, drug2, has_interaction, confidence) ==
    IF has_interaction
    THEN <<"A potential drug-drug interaction has been detected between">> \o Title(drug1)
         \o <<"and">> \o Title(drug2) \o <<"with">> \o Percent(confidence)
         \o <<"confidence. These medications may interact when taken together.">>
    ELSE <<"No significant interaction detected between">> \o Title(drug1)
         \o <<"and">> \o Title(drug2) \o <<"based on available data (confidence:">>
         \o Percent(confidence) \o <<").">>

generate_warnings(drug1, drug2, has_interaction, risk_level) ==
    IF ~has_interaction
    THEN <<"While no interaction is predicted, always monitor for unexpected side effects.">>
    ELSE IF risk_level = "High"
    THEN <<"HIGH RISK: The combination of">> \o Title(drug1) \o <<"and">> \o Title(drug2)
         \o <<"may pose significant health risks.">>
    ELSE IF risk_level = "Moderate"
    THEN <<"MODERATE RISK:">> \o Title(drug1) \o <<"and">> \o Title(drug2)
         \o <<"may interact.">>
    ELSE <<"LOW RISK: A potential interaction between">> \o Title(drug1) \o <<"and">>
         \o Title(drug2) \o <<"has been identified, but the risk appears to be low.">>

\* 'needle in haystack' for strings.
IsSubstr(needle, hay) ==
    \E k \in 0..(Len(hay) - Len(needle)) : SubSeq(hay, k + 1, k + Len(needle)) = needle

\* The drug features loaded with the classifier (processed_data.pkl), by normalized name.
DrugFeaturesDb == {<<"a">>, <<"b">>}

\* Returns whether features were found (direct lookup, then partial matching).
get_drug_features_from_db(drug_name) ==
    LET normalized == normalize_drug_name(drug_name)
    IN  \/ normalized \in DrugFeaturesDb
        \/ \E db_drug \in DrugFeaturesDb :
              IsSubstr(normalized, db_drug) \/ IsSubstr(db_drug, normalized)

(***************************************************************************)
(* services/explainable_ai_service.py                                      *)
(***************************************************************************)

\* drugs_side_effects_drugs_com.csv after fillna("Unknown"), keyed by lower-cased name.
SideEffectsDrugs == {<<"a">>, <<"b">>}

SideEffectsRow(key) ==
    IF key = <<"a">>
    THEN [drug_classes |-> <<"anticoagulant">>, side_effects |-> <<"bleeding", "nausea">>,
          pregnancy_category |-> "X", alcohol |-> <<"avoid">>, related_drugs |-> <<"d">>,
          medical_condition |-> "Thrombosis"]
    ELSE [drug_classes |-> <<"Unknown">>, side_effects |-> <<"nausea">>,
          pregnancy_category |-> "N", alcohol |-> <<"Unknown">>, related_drugs |-> <<>>,
          medical_condition |-> "Unknown"]

\* get_drug_info: <<>> stands for the empty dict, <<row>> for a row that was found.
get_drug_info(loaded, drug_name) ==
    IF ~loaded THEN <<>>
    ELSE IF Lower(drug_name) \notin SideEffectsDrugs THEN <<>>
    ELSE <<SideEffectsRow(Lower(drug_name))>>

high_risk_combinations == {<<"anticoagulant", "nsaid">>, <<"anticoagulant", "antiplatelet">>}

\* Each analyze_* returns <<explanation, severity>>.
analyze_drug_class_conflict(loaded, drug1, drug2) ==
    LET info1 == get_drug_info(loaded, drug1)
        info2 == get_drug_info(loaded, drug2)
    IN  IF info1 = <<>> \/ info2 = <<>>
        THEN << <<"Drug class information", "not available">>, "Unknown" >>
        ELSE LET class1 == info1[1].drug_classes
                 class2 == info2[1].drug_classes
                 class1_lower == Lower(class1)
                 class2_lower == Lower(class2)
             IN  IF \E combo \in high_risk_combinations :
                        \/ combo[1] \in Range(class1_lower) /\ combo[2] \in Range(class2_lower)
                        \/ combo[2] \in Range(class1_lower) /\ combo[1] \in Range(class2_lower)
                 THEN << <<"Drug Class Conflict:">> \o drug1 \o <<"(">> \o class1 \o <<") and">>
                         \o drug2 \o <<"(">> \o class2
                         \o <<") belong to drug classes that are known to interact dangerously.">>,
                         "High" >>
                 ELSE IF class1_lower # <<"unknown">> /\ class1_lower = class2_lower
                 THEN << <<"Same Drug Class: Both drugs belong to">> \o class1
                         \o <<", which may cause additive effects or increased side effects.">>,
                         "Moderate" >>
                 ELSE << <<"Drug classes:">> \o drug1 \o <<"(">> \o class1 \o <<"),">> \o drug2
                         \o <<"(">> \o class2 \o <<")">>, "Low" >>

critical_effects == {"bleeding", "seizure"}
moderate_effects == {"dizziness", "nausea"}

analyze_side_effect_overlap(loaded, drug1, drug2) ==
    LET info1 == get_drug_info(loaded, drug1)
        info2 == get_drug_info(loaded, drug2)
    IN  IF info1 = <<>> \/ info2 = <<>>
        THEN << <<"Side effect information", "not available">>, "Unknown" >>
        ELSE LET se1 == Range(Lower(info1[1].side_effects))
                 se2 == Range(Lower(info2[1].side_effects))
             IN  IF critical_effects \cap se1 \cap se2 # {}
                 THEN << <<"Critical Side Effect Overlap: Combined use significantly increases risk.">>,
                         "High" >>
                 ELSE IF moderate_effects \cap se1 \cap se2 # {}
                 THEN << <<"Side Effect Overlap: Monitor for increased severity.">>, "Moderate" >>
                 ELSE << <<"No significant side effect overlap detected">>, "Low" >>

analyze_pregnancy_risk(loaded, drug1, drug2) ==
    LET info1 == get_drug_info(loaded, drug1)
        info2 == get_drug_info(loaded, drug2)
    IN  IF info1 = <<>> \/ info2 = <<>>
        THEN << <<"Pregnancy category information", "not available">>, "Unknown" >>
        ELSE LET preg1 == info1[1].pregnancy_category
                 preg2 == info2[1].pregnancy_category
             IN  IF preg1 \in {"D", "X"} \/ preg2 \in {"D", "X"}
                 THEN << <<"Pregnancy Warning: High risk during pregnancy.">>, "High" >>
                 ELSE IF preg1 \in {"C"} \/ preg2 \in {"C"}
                 THEN << <<"Pregnancy Caution: Use only if benefits outweigh risks.">>,
                         "Moderate" >>
                 ELSE << <<"No specific", "pregnancy warnings for this combination">>, "Low" >>

analyze_alcohol_interaction(loaded, drug1, drug2) ==
    LET info1 == get_drug_info(loaded, drug1)
        info2 == get_drug_info(loaded, drug2)
    IN  IF info1 = <<>> \/ info2 = <<>>
        THEN << <<"Alcohol interaction information", "not available">>, "Unknown" >>
        ELSE LET alc1 == Range(Lower(info1[1].alcohol))
                 alc2 == Range(Lower(info2[1].alcohol))
                 w1 == IF {"avoid", "not recommended"} \cap alc1 # {} THEN <<drug1>> ELSE <<>>
                 w2 == IF {"avoid", "not recommended"} \cap alc2 # {} THEN <<drug2>> ELSE <<>>
                 warnings == w1 \o w2
             IN  IF Len(warnings) = 2
                 THEN << <<"Alcohol Warning: Both">> \o drug1 \o <<"and">> \o drug2
                         \o <<"should not be combined with alcohol.">>, "High" >>
                 ELSE IF Len(warnings) = 1
                 THEN << <<"Alcohol Caution:">> \o warnings[1]
                         \o <<"should not be combined with alcohol.">>, "Moderate" >>
                 ELSE << <<"No specific", "alcohol warnings for this combination">>, "Low" >>

Explanation(type, analysis) ==
    [explanation_type |-> type, explanation_text |-> analysis[1],
     severity_contribution |-> analysis[2]]

\* data is the state of the dataset: "missing" (load_data leaves loaded = False) or
\* "loaded".  A dataset that raises when read is handled by the caller.
generate_comprehensive_explanation(data, drug1, drug2) ==
    LET loaded == data = "loaded"
    IN  << Explanation("drug_class", analyze_drug_class_conflict(loaded, drug1, drug2)),
           Explanation("side_effect", analyze_side_effect_overlap(loaded, drug1, drug2)),
           Explanation("pregnancy", analyze_pregnancy_risk(loaded, drug1, drug2)),
           Explanation("alcohol", analyze_alcohol_interaction(loaded, drug1, drug2)) >>

(***************************************************************************)
(* services/recommendation_service.py                                      *)
(***************************************************************************)

get_drug_medical_condition(loaded, drug_name) ==
    IF ~loaded \/ Lower(drug_name) \notin SideEffectsDrugs THEN "Unknown"
    ELSE SideEffectsRow(Lower(drug_name)).medical_condition

get_related_drugs(loaded, drug_name) ==
    IF ~loaded \/ Lower(drug_name) \notin SideEffectsDrugs THEN <<>>
    ELSE SideEffectsRow(Lower(drug_name)).related_drugs

\* One entry per related drug; no related drug interacts in the interaction dataset.
recommend_alternatives(loaded, risky_drug, safe_drug) ==
    LET medical_condition == get_drug_medical_condition(loaded, risky_drug)
        related_drugs == get_related_drugs(loaded, risky_drug)
    IN  [i \in 1..Len(related_drugs) |->
            [alternative_drug |-> <<related_drugs[i]>>,
             reason |-> <<related_drugs[i], "treats", medical_condition,
                          "and has no known interaction with">> \o safe_drug
                        \o <<". Consider this as a safer alternative.">>,
             safety_score |-> 500,
             medical_condition |-> medical_condition]]

get_recommendations_for_interaction(data, drug1, drug2) ==
    LET loaded == data = "loaded"
        all_recommendations == recommend_alternatives(loaded, drug1, drug2)
                               \o recommend_alternatives(loaded, drug2, drug1)
    IN  IF all_recommendations = <<>>
        THEN << [alternative_drug |-> <<"Consult Healthcare Provider">>,
                 reason |-> <<"No specific", "alternatives found in our database for">>
                            \o drug1 \o <<"or">> \o drug2,
                 safety_score |-> 0,
                 medical_condition |-> "Various"] >>
        ELSE all_recommendations

(***************************************************************************)
(* services/gemini_service.py                                              *)
(*                                                                         *)
(* A dict is a function on its keys.  A JSON value whose type the code     *)
(* tests is tagged: [t |-> "list", v |-> <<...>>], [t |-> "str", v |-> s], *)
(* [t |-> "obj", v |-> dict], [t |-> "num"], [t |-> "null"].               *)
(***************************************************************************)

Has(d, k) == k \in DOMAIN d

\* d.get(k, default)
Get(d, k, default) == IF Has(d, k) THEN d[k] ELSE default

\* d.get(k) where the value is a string or a list: None is falsy like <<>>.
GetSeq(d, k) == Get(d, k, <<>>)

\* d[k] = v on a copy of d.
Put(d, k, v) == (k :> v) @@ d

PlaceholderMarkers == {"unknown", "not available", "no specific"}

\* "unknown" in text or "not available" in text or "no specific" in text, text lower-cased.
IsPlaceholder(explanation_text) ==
    \E i \in 1..Len(explanation_text) : LowerAtom(explanation_text[i]) \in PlaceholderMarkers

required_types == <<"drug_class", "side_effect", "pregnancy", "alcohol">>

\* Lower-casing of an explanation type (one atom).
LowerType(type) ==
    CASE type = "Drug_Class" -> "drug_class"
      [] type = "Monitoring" -> "monitoring"
      [] type = "Precautionary" -> "precautionary"
      [] OTHER -> type

\* exp.get("explanation_type", "general").lower()
ExpKey(exp) == LowerType(Get(exp, "explanation_type", "general"))

\* Keys of {ExpKey(e): e for e in exps}, in insertion order.
RECURSIVE ExpMapKeys(_)
ExpMapKeys(exps) ==
    IF exps = <<>> THEN <<>>
    ELSE LET rest == ExpMapKeys(SubSeq(exps, 1, Len(exps) - 1))
             k == ExpKey(exps[Len(exps)])
         IN  IF k \in Range(rest) THEN rest ELSE Append(rest, k)

\* {ExpKey(e): e for e in exps}.get(k): the last entry with that key, <<>> for None.
ExpMapGet(exps, k) ==
    IF \E i \in 1..Len(exps) : ExpKey(exps[i]) = k
    THEN exps[CHOOSE i \in 1..Len(exps) :
                 /\ ExpKey(exps[i]) = k
                 /\ \A j \in (i + 1)..Len(exps) : ExpKey(exps[j]) # k]
    ELSE <<>>

\* A tagged value is truthy and a list.
IsNonEmptyList(d, k) == Has(d, k) /\ d[k].t = "list" /\ d[k].v # <<>>

FromGemini(exp_type, gemini_exp) ==
    [explanation_type |-> exp_type,
     explanation_text |-> Get(gemini_exp, "explanation_text",
                              <<"Detailed information provided by clinical AI.">>),
     severity_contribution |-> Get(gemini_exp, "severity_contribution", "Low")]

\* The body of 'for exp_type in required_types': the entries appended for one type.
MergeOneType(exp_type, orig_exps, gemini_exps) ==
    LET orig_exp == ExpMapGet(orig_exps, exp_type)
        gemini_exp == ExpMapGet(gemini_exps, exp_type)
        use_gemini == IF orig_exp = <<>> THEN TRUE
                      ELSE IsPlaceholder(GetSeq(orig_exp, "explanation_text"))
    IN  IF use_gemini /\ gemini_exp # <<>> THEN <<FromGemini(exp_type, gemini_exp)>>
        ELSE IF orig_exp # <<>> THEN <<orig_exp>>
        ELSE IF gemini_exp # <<>> THEN <<FromGemini(exp_type, gemini_exp)>>
        ELSE <<>>

\* 'for g_type, g_exp in gemini_exps.items(): if g_type not in required_types'.
RECURSIVE OtherTypes(_, _)
OtherTypes(keys, gemini_exps) ==
    IF keys = <<>> THEN <<>>
    ELSE LET g_exp == ExpMapGet(gemini_exps, Head(keys))
             here == IF Head(keys) \in Range(required_types) THEN <<>>
                     ELSE << [explanation_type |-> Get(g_exp, "explanation_type", "general"),
                              explanation_text |-> GetSeq(g_exp, "explanation_text"),
                              severity_contribution |->
                                  Get(g_exp, "severity_contribution", "Low")] >>
         IN  here \o OtherTypes(Tail(keys), gemini_exps)

Untag(entries) == [i \in 1..Len(entries) |-> entries[i].v]

MergeExplanations(original, refined_data) ==
    LET gemini_exps == Untag(refined_data["explanations"].v)
        orig_exps == GetSeq(original, "explanations")
    IN  MergeOneType(required_types[1], orig_exps, gemini_exps)
        \o MergeOneType(required_types[2], orig_exps, gemini_exps)
        \o MergeOneType(required_types[3], orig_exps, gemini_exps)
        \o MergeOneType(required_types[4], orig_exps, gemini_exps)
        \o OtherTypes(ExpMapKeys(gemini_exps), gemini_exps)

\* A side-effect list that takes every string entry as it is.
EveryStringEntry(entries) ==
    [i \in 1..Len(entries) |-> IF entries[i].t = "str" THEN entries[i].v ELSE <<>>]

\* [se.strip() for se in refined["side_effect_overlap"] if se and se.strip()]
RECURSIVE CleanSideEffects(_)
CleanSideEffects(entries) ==
    IF entries = <<>> THEN <<>>
    ELSE LET se == Head(entries)
         IN  (IF se.t = "str" /\ Strip(se.v) # <<>> THEN <<Strip(se.v)>> ELSE <<>>)
             \o CleanSideEffects(Tail(entries))

\* A normalization that makes one entry of every external entry, whatever its type.
OneRecPerEntry(entries) ==
    [i \in 1..Len(entries) |->
        [alternative_drug |-> <<"Consult Doctor">>,
         reason |-> IF entries[i].t = "str" THEN entries[i].v ELSE <<>>,
         safety_score |-> 0, medical_condition |-> "N/A"]]

\* valid_recs
RECURSIVE ValidRecs(_)
ValidRecs(entries) ==
    IF entries = <<>> THEN <<>>
    ELSE LET rec == Head(entries)
             here ==
                 IF rec.t = "str"
                 THEN << [alternative_drug |-> <<"Consult Doctor">>, reason |-> rec.v,
                          safety_score |-> 0, medical_condition |-> "N/A"] >>
                 ELSE IF rec.t = "obj"
                 THEN << [alternative_drug |-> Get(rec.v, "alternative_drug", <<"Alternative">>),
                          reason |-> Get(rec.v, "reason", <<"Better safety profile.">>),
                          safety_score |-> Get(rec.v, "safety_score", 800),
                          medical_condition |-> Get(rec.v, "medical_condition", "N/A")] >>
                 ELSE <<>>
         IN  here \o ValidRecs(Tail(entries))

\* _merge_results raises (AttributeError) on an explanation entry that is no dict and
\* on a truthy side-effect entry that is no string.
MergeRaises(original, refined_data) ==
    \/ /\ IsNonEmptyList(refined_data, "explanations")
       /\ \E i \in 1..Len(refined_data["explanations"].v) :
             refined_data["explanations"].v[i].t # "obj"
    \/ /\ IsNonEmptyList(refined_data, "side_effect_overlap")
       /\ \E i \in 1..Len(refined_data["side_effect_overlap"].v) :
             refined_data["side_effect_overlap"].v[i].t = "num"

\* A merge that reads the classification from the response when it carries one.
ClassificationFromResponse(original, refined_data) ==
    IF Has(refined_data, "interaction") THEN refined_data ELSE original

\* Step 1 of _merge_results: the dict the four classification fields are read from.
ClassificationSource(original, refined_data) == original

EnforceClassification(original, refined_data, merged) ==
    LET source == ClassificationSource(original, refined_data)
    IN  Put(Put(Put(Put(merged, "interaction", source["interaction"]),
                    "confidence", source["confidence"]),
                "risk_level", source["risk_level"]),
            "severity", source["severity"])

_merge_results(original, refined_data) ==
    LET m1 == EnforceClassification(original, refined_data, original)
        m2 == IF GetSeq(refined_data, "interaction_summary") # <<>>
              THEN Put(m1, "interaction_summary", refined_data["interaction_summary"])
              ELSE m1
        m3 == IF GetSeq(refined_data, "warnings") # <<>>
              THEN Put(m2, "warnings", refined_data["warnings"])
              ELSE m2
        m4 == IF IsNonEmptyList(refined_data, "explanations")
              THEN Put(m3, "explanations", MergeExplanations(original, refined_data))
              ELSE m3
        side_effects == IF IsNonEmptyList(refined_data, "side_effect_overlap")
                        THEN CleanSideEffects(refined_data["side_effect_overlap"].v)
                        ELSE <<>>
        m5 == IF side_effects # <<>> THEN Put(m4, "side_effect_overlap", side_effects) ELSE m4
        valid_recs == IF IsNonEmptyList(refined_data, "recommendations")
                      THEN ValidRecs(refined_data["recommendations"].v)
                      ELSE <<>>
    IN  IF valid_recs # <<>> THEN Put(m5, "recommendations", valid_recs) ELSE m5

_apply_local_fallback(data, drug1, drug2) ==
    LET f1 == IF GetSeq(data, "interaction_summary") = <<>>
              THEN Put(data, "interaction_summary",
                       <<"The deep learning model has analyzed the properties of">> \o drug1
                       \o <<"and">> \o drug2
                       \o <<"Based on structural similarity and known patterns, the interaction risk is classified as",
                            Get(data, "risk_level", "Unknown")>>)
              ELSE data
        f2 == IF GetSeq(f1, "warnings") = <<>>
              THEN Put(f1, "warnings",
                       <<"Concurrent use of">> \o drug1 \o <<"and">> \o drug2
                       \o <<"should be monitored. Consult a healthcare professional for specific advice.">>)
              ELSE f1
        f3 == IF GetSeq(f2, "explanations") = <<>>
              THEN Put(f2, "explanations",
                       << [explanation_type |-> "Precautionary",
                           explanation_text |->
                               <<"Detailed interaction mechanism is", "not currently available",
                                 "in the database, but caution is advised based on predictive modeling.">>,
                           severity_contribution |-> Get(f2, "severity", "Unknown")] >>)
              ELSE f2
        f4 == IF GetSeq(f3, "recommendations") = <<>>
              THEN Put(f3, "recommendations",
                       << [alternative_drug |-> <<"Consult Healthcare Provider">>,
                           reason |-> <<"Please consult a pharmacist or physician for suitable alternatives based on your specific medical condition.">>,
                           safety_score |-> 0,
                           medical_condition |-> "General"] >>)
              ELSE f3
    IN  IF GetSeq(f4, "side_effect_overlap") = <<>>
        THEN Put(f4, "side_effect_overlap",
                 << <<"Dizziness">>, <<"Nausea">>, <<"Headache">>, <<"Fatigue">> >>)
        ELSE f4

\* What the call of validate_and_refine does with the outcome of the external call:
\*   "fallback" - the local fallback is returned;  "merge" - the merged result is.
\* model is GeminiService.model; response is what generate_content and response.text do:
\*   kind "raise"   - generate_content or response.text raises;
\*   kind "text"    - response.text with the markdown fence removed is json "empty" (no
\*                    text), "invalid" (json.loads raises), "scalar" or "array" (.keys()
\*                    raises) or "object" (refined_data = response.obj).
\* f"[{drug1}, {drug2}]": the value of "drugs"
DrugsOfPrompt(drug1, drug2) == <<drug1, drug2>>

\* An input_summary that carries only the texts holding a placeholder marker.
PlaceholdersOnly(data, drug1, drug2) ==
    LET summary == GetSeq(data, "interaction_summary")
        exps == GetSeq(data, "explanations")
        IsPlaceholderEntry(e) == IsPlaceholder(e.explanation_text)
    IN  [drugs |-> DrugsOfPrompt(drug1, drug2),
         predicted_interaction |-> Get(data, "interaction", <<>>),
         predicted_confidence |-> Get(data, "confidence", <<>>),
         predicted_risk |-> Get(data, "risk_level", <<>>),
         predicted_severity |-> Get(data, "severity", <<>>),
         current_summary |-> IF IsPlaceholder(summary) THEN summary ELSE <<>>,
         wording_to_refine |-> SelectSeq(exps, IsPlaceholderEntry)]

\* _construct_prompt: the input_summary that json.dumps writes into the prompt.
_construct_prompt(data, drug1, drug2) ==
    [drugs |-> DrugsOfPrompt(drug1, drug2),
     predicted_interaction |-> Get(data, "interaction", <<>>),
     predicted_confidence |-> Get(data, "confidence", <<>>),
     predicted_risk |-> Get(data, "risk_level", <<>>),
     predicted_severity |-> Get(data, "severity", <<>>),
     current_summary |-> GetSeq(data, "interaction_summary"),
     wording_to_refine |-> GetSeq(data, "explanations")]

RefinePath(model, data, response) ==
    IF model = "none" THEN "fallback"
    ELSE IF response.kind = "silent" THEN "blocked"
    ELSE IF response.kind = "raise" THEN "fallback"
    ELSE IF response.json = "empty" THEN "fallback"
    ELSE IF response.json # "object" THEN "fallback"
    ELSE IF MergeRaises(data, response.obj) THEN "fallback"
    ELSE "merge"

validate_and_refine(model, data, drug1, drug2, response) ==
    IF RefinePath(model, data, response) = "merge"
    THEN _merge_results(data, response.obj)
    ELSE _apply_local_fallback(data, drug1, drug2)

(***************************************************************************)
(* services/ddi_service.py                                                 *)
(***************************************************************************)

\* ', '.join(names)
RECURSIVE JoinComma(_)
JoinComma(names) ==
    IF names = <<>> THEN <<>>
    ELSE IF Len(names) = 1 THEN names[1]
    ELSE names[1] \o <<", ">> \o JoinComma(Tail(names))

\* predict_interaction up to the refinement: the response built from the classifier's
\* probability (in thousandths), the explainer and the recommender.  A dataset that is
\* "broken" makes the service raise, which predict_interaction answers with [].
BuildResponse(drug1, drug2, prediction_proba, expl_data, rec_data) ==
    LET prediction == IF prediction_proba > 500 THEN 1 ELSE 0
        confidence == IF prediction = 1 THEN prediction_proba ELSE 1000 - prediction_proba
        risk_level == calculate_risk_level(prediction_proba)
        severity == IF risk_level = "High" THEN "Severe"
                    ELSE IF risk_level = "Moderate" THEN "Moderate"
                    ELSE "Mild"
        has_interaction == prediction = 1
        missing_drugs == (IF get_drug_features_from_db(drug1) THEN <<>> ELSE <<drug1>>)
                         \o (IF get_drug_features_from_db(drug2) THEN <<>> ELSE <<drug2>>)
        note == IF missing_drugs = <<>> THEN <<>>
                ELSE <<"NOTE:">> \o JoinComma(missing_drugs)
                     \o <<"not found in database. Prediction based on limited information.">>
    IN  [interaction |-> IF has_interaction THEN "Yes" ELSE "No",
         confidence |-> confidence,
         risk_level |-> risk_level,
         severity |-> severity,
         interaction_summary |->
             generate_interaction_summary(drug1, drug2, has_interaction, confidence),
         warnings |-> generate_warnings(drug1, drug2, has_interaction, risk_level) \o note,
         disclaimer |-> <<"MEDICAL DISCLAIMER">>,
         explanations |-> IF expl_data = "broken" THEN <<>>
                          ELSE generate_comprehensive_explanation(expl_data, drug1, drug2),
         recommendations |-> IF rec_data = "broken" THEN <<>>
                             ELSE get_recommendations_for_interaction(rec_data, drug1, drug2)]

\* predict_interaction without persistence: the response, refined.
predict_interaction(drug1, drug2, prediction_proba, data, model, response) ==
    validate_and_refine(model, BuildResponse(drug1, drug2, prediction_proba, data, data),
                        drug1, drug2, response)

(***************************************************************************)
(* The environment of the refinement layer                                 *)
(***************************************************************************)

\* Classifier probabilities are multiples of 1000 / ProbaGrid thousandths.
ProbaGrid == 3

Probas == {(k * 1000) \div ProbaGrid : k \in 0..ProbaGrid}

DataStates == {"missing", "loaded", "broken"}

NoResponse == [kind |-> "raise", json |-> "none", obj |-> <<>>]

\* generate_content never returns.
Silent == [kind |-> "silent", json |-> "none", obj |-> <<>>]

Str(s) == [t |-> "str", v |-> s]
List(xs) == [t |-> "list", v |-> xs]
Obj(d) == [t |-> "obj", v |-> d]

\* The ways a response can fill each group of the required JSON structure; <<>> is a
\* group that is absent.
ClassificationGroups ==
    {<<>>, [interaction |-> "No", confidence |-> 1, risk_level |-> "None", severity |-> "Toxic"]}

SummaryGroups == {<<>>, [interaction_summary |-> <<"Refined clinical summary">>]}

WarningsGroups == {<<>>, [warnings |-> <<"Refined warning text">>]}

GeminiExp(type, text) ==
    Obj([explanation_type |-> type, explanation_text |-> text,
         severity_contribution |-> "Moderate"])

ExplanationsGroups ==
    {<<>>,
     [explanations |-> List(<<>>)],
     [explanations |-> Str(<<"see summary">>)],
     [explanations |-> List(<<GeminiExp("Drug_Class", <<"Classes compared">>),
                              GeminiExp("side_effect", <<"Overlap analysed">>),
                              GeminiExp("pregnancy", <<"Pregnancy advice">>),
                              GeminiExp("alcohol", <<"Alcohol advice">>)>>)],
     [explanations |-> List(<<GeminiExp("pregnancy", <<"Unknown">>),
                              Obj([explanation_type |-> "Monitoring"]),
                              Obj(<<>>)>>)],
     [explanations |-> List(<<GeminiExp("alcohol", <<"Alcohol advice">>),
                              Str(<<"and one more">>)>>)],
     [explanations |-> List(<<GeminiExp("Monitoring", <<"Check INR weekly">>),
                              GeminiExp("alcohol", <<"Alcohol advice">>),
                              GeminiExp("Monitoring", <<"Check renal function">>)>>)]}

SideEffectGroups ==
    {<<>>,
     [side_effect_overlap |-> List(<<Str(<<" ">>), [t |-> "null"], Str(<<>>)>>)],
     [side_effect_overlap |-> List(<<Str(<<" ", "Bleeding", " ">>), Str(<<>>)>>)],
     [side_effect_overlap |-> List(<<Str(<<"Bleeding">>), [t |-> "num"]>>)]}

RecommendationGroups ==
    {<<>>,
     [recommendations |-> List(<<[t |-> "num"]>>)],
     [recommendations |-> List(<<Str(<<"Monitor INR">>), Obj(<<>>)>>)],
     [recommendations |-> List(<<[t |-> "null"], Str(<<"Avoid alcohol">>)>>)]}

GeminiObjects ==
    {c @@ s @@ w @@ e @@ o @@ r :
        c \in ClassificationGroups, s \in SummaryGroups, w \in WarningsGroups,
        e \in ExplanationsGroups, o \in SideEffectGroups, r \in RecommendationGroups}

Responses ==
    {NoResponse, Silent}
    \cup {[kind |-> "text", json |-> j, obj |-> <<>>] :
             j \in {"empty", "invalid", "scalar", "array"}}
    \cup {[kind |-> "text", json |-> "object", obj |-> o] : o \in GeminiObjects}

\* The drug pairs the refinement layer is exercised on.
RefinePairs == {<< <<"A">>, <<"b">> >>, << <<"a">>, <<"c">> >>}

InitRefine ==
    /\ gemini_model \in {"none", "configured"}
    /\ enrichment \in (IF gemini_model = "none" THEN {NoResponse} ELSE Responses)
    /\ \E pair \in RefinePairs, p \in Probas, e \in DataStates, r \in DataStates :
          refine_call = [prediction_data |-> BuildResponse(pair[1], pair[2], p, e, r),
                         drug1 |-> pair[1], drug2 |-> pair[2]]
    /\ refined = <<>>
    /\ pc = "refine"
    /\ request = <<>> /\ explainer_data = "missing"
    /\ drugs = <<>> /\ unique_drugs = <<>> /\ pairs = <<>> /\ idx = 0 /\ results = <<>>
    /\ outcome = <<>> /\ predict_calls = <<>> /\ enrich_calls = 0
    /\ sel_input = <<>> /\ sel_sorted = <<>>
    /\ name_in = <<>> /\ name_out = <<>>
    /\ prompt = <<>> /\ Elsewhere

NotRefining ==
    UNCHANGED <<request, gemini_model, explainer_data, drugs, unique_drugs, pairs, idx,
                results, outcome, predict_calls, refine_call, enrichment,
                sel_input, sel_sorted, name_in, name_out, raw_request, earlier, predictVars, authVars,
                analyticsVars>>

\* validate_and_refine, lines 78-80: Gemini is not configured.
RefineNotConfigured ==
    /\ pc = "refine" /\ gemini_model = "none"
    /\ refined' = <<validate_and_refine(gemini_model, refine_call.prediction_data,
                                        refine_call.drug1, refine_call.drug2, enrichment)>>
    /\ pc' = "fallback"
    /\ enrich_calls' = enrich_calls
    /\ prompt' = prompt
    /\ NotRefining

\* validate_and_refine, lines 84-127: the response is parsed and merged.
RefineMerge ==
    /\ pc = "refine" /\ gemini_model # "none"
    /\ RefinePath(gemini_model, refine_call.prediction_data, enrichment) = "merge"
    /\ refined' = <<validate_and_refine(gemini_model, refine_call.prediction_data,
                                        refine_call.drug1, refine_call.drug2, enrichment)>>
    /\ pc' = "merged"
    /\ enrich_calls' = enrich_calls + 1
    /\ prompt' = <<_construct_prompt(refine_call.prediction_data, refine_call.drug1,
                                     refine_call.drug2)>>
    /\ NotRefining

\* validate_and_refine, lines 128-141: an exception sends the call to the fallback.
RefineCatch ==
    /\ pc = "refine" /\ gemini_model # "none"
    /\ RefinePath(gemini_model, refine_call.prediction_data, enrichment) = "fallback"
    /\ refined' = <<validate_and_refine(gemini_model, refine_call.prediction_data,
                                        refine_call.drug1, refine_call.drug2, enrichment)>>
    /\ pc' = "fallback"
    /\ enrich_calls' = enrich_calls + 1
    /\ prompt' = <<_construct_prompt(refine_call.prediction_data, refine_call.drug1,
                                     refine_call.drug2)>>
    /\ NotRefining

\* validate_and_refine, lines 94-101: generate_content is called without a timeout,
\* and a service that never answers keeps the call, and its caller, waiting.
RefineBlocks ==
    /\ pc = "refine" /\ gemini_model # "none"
    /\ RefinePath(gemini_model, refine_call.prediction_data, enrichment) = "blocked"
    /\ pc' = "waiting"
    /\ enrich_calls' = enrich_calls + 1
    /\ prompt' = <<_construct_prompt(refine_call.prediction_data, refine_call.drug1,
                                     refine_call.drug2)>>
    /\ refined' = refined
    /\ NotRefining

NextRefine == RefineNotConfigured \/ RefineMerge \/ RefineCatch \/ RefineBlocks

SpecRefine == InitRefine /\ [][NextRefine]_vars

(***************************************************************************)
(* routes/predict.py: worst-case selection                                 *)
(***************************************************************************)

\* risk_priority.get(risk_level, 0)
risk_priority(risk_level) ==
    CASE risk_level = "High" -> 3
      [] risk_level = "Moderate" -> 2
      [] risk_level = "Low" -> 1
      [] OTHER -> 0

\* The key of sorted(): a tuple, compared lexicographically.
SortKey(x) ==
    << IF x.result["interaction"] = "Yes" THEN 1 ELSE 0,
       risk_priority(x.result["risk_level"]),
       x.result["confidence"] >>

KeyLess(k1, k2) ==
    \/ k1[1] < k2[1]
    \/ k1[1] = k2[1] /\ k1[2] < k2[2]
    \/ k1[1] = k2[1] /\ k1[2] = k2[2] /\ k1[3] < k2[3]

\* An insertion that puts x before the elements whose key equals its own.
RECURSIVE InsertBeforeEqual(_, _)
InsertBeforeEqual(sorted, x) ==
    IF sorted = <<>> THEN <<x>>
    ELSE IF ~KeyLess(SortKey(x), SortKey(Head(sorted))) THEN <<x>> \o sorted
    ELSE <<Head(sorted)>> \o InsertBeforeEqual(Tail(sorted), x)

\* sorted(..., reverse=True) is stable: x goes after every element whose key is not
\* smaller than its own.
RECURSIVE InsertDescending(_, _)
InsertDescending(sorted, x) ==
    IF sorted = <<>> THEN <<x>>
    ELSE IF KeyLess(SortKey(Head(sorted)), SortKey(x)) THEN <<x>> \o sorted
    ELSE <<Head(sorted)>> \o InsertDescending(Tail(sorted), x)

\* sorted(results, key=..., reverse=True)
RECURSIVE SortWorstFirst(_)
SortWorstFirst(xs) ==
    IF xs = <<>> THEN <<>>
    ELSE InsertDescending(SortWorstFirst(SubSeq(xs, 1, Len(xs) - 1)), xs[Len(xs)])

(***************************************************************************)
(* routes/predict.py: the /predict handler                                 *)
(***************************************************************************)

Slots == <<"drug1", "drug2", "drug3", "drug4", "drug5">>

\* [d for d in [request.drug1, ..., request.drug5] if d and d.strip()]
RECURSIVE CollectFrom(_, _)
CollectFrom(req, i) ==
    IF i > Len(Slots) THEN <<>>
    ELSE LET d == req[Slots[i]]
         IN  (IF d # <<>> /\ d[1] # <<>> /\ Strip(d[1]) # <<>> THEN <<d[1]>> ELSE <<>>)
             \o CollectFrom(req, i + 1)

\* set(drugs): the distinct strings.
UniqueDrugSet(ds) == Range(ds)

\* Every ordered pair of two positions, as itertools.permutations would give.
Permutations2(xs) ==
    LET n == Len(xs)
        At(k) == <<((k - 1) \div n) + 1, ((k - 1) % n) + 1>>
        Ordered == SelectSeq([k \in 1..(n * n) |-> At(k)], LAMBDA ij : ij[1] # ij[2])
    IN  [k \in 1..Len(Ordered) |-> <<xs[Ordered[k][1]], xs[Ordered[k][2]]>>]

\* list(itertools.combinations(xs, 2)), in its order.
RECURSIVE Combinations2(_)
Combinations2(xs) ==
    IF Len(xs) < 2 THEN <<>>
    ELSE [j \in 1..(Len(xs) - 1) |-> <<xs[1], xs[j + 1]>>] \o Combinations2(Tail(xs))

\* The text without a label.
Unlabelled(pair, text) == text

\* f"[{d1} + {d2}] {text}"
Labelled(pair, text) == <<"[">> \o pair[1] \o <<" + ">> \o pair[2] \o <<"] ">> \o text

\* The explanations of one item, relabelled (lines 209-212).
LabelExplanations(item) ==
    LET exps == GetSeq(item.result, "explanations")
    IN  [i \in 1..Len(exps) |->
            [exps[i] EXCEPT !.explanation_text = Labelled(item.pair, @)]]

\* The recommendations of one item, relabelled (lines 215-218).
LabelRecommendations(item) ==
    LET recs == GetSeq(item.result, "recommendations")
    IN  [i \in 1..Len(recs) |-> [recs[i] EXCEPT !.reason = Labelled(item.pair, @)]]

RECURSIVE AllExplanations(_)
AllExplanations(items) ==
    IF items = <<>> THEN <<>>
    ELSE LabelExplanations(Head(items)) \o AllExplanations(Tail(items))

RECURSIVE AllRecommendations(_)
AllRecommendations(items) ==
    IF items = <<>> THEN <<>>
    ELSE LabelRecommendations(Head(items)) \o AllRecommendations(Tail(items))

\* A filter that keeps every result.
AnyResult(item) == TRUE

\* Line 225: r["result"]["interaction"] == "Yes"
IsInteraction(item) == item.result["interaction"] = "Yes"

\* f"* {d1} + {d2}: {risk} Risk Detected"
InteractionLine(item) ==
    <<"* ">> \o item.pair[1] \o <<" + ">> \o item.pair[2]
    \o <<": ", item.result["risk_level"], " Risk Detected">>

\* "\n".join(interaction_summaries)
RECURSIVE InteractionLines(_)
InteractionLines(found) ==
    IF found = <<>> THEN <<>>
    ELSE IF Len(found) = 1 THEN InteractionLine(found[1])
    ELSE InteractionLine(found[1]) \o <<"\n">> \o InteractionLines(Tail(found))

\* multi_summary (lines 224-242)
MultiSummary(sorted_results, all_pairs, unique) ==
    LET found_interactions == SelectSeq(sorted_results, IsInteraction)
        header == <<"Analyzed ", ToString(Len(all_pairs)), " pairs from ",
                    ToString(Len(unique)), " drugs.", "\n">>
    IN  IF found_interactions # <<>>
        THEN header \o <<"DETECTED ", ToString(Len(found_interactions)), " INTERACTION(S):",
                         "\n">> \o InteractionLines(found_interactions)
        ELSE header \o <<"No significant interactions detected among any combination.">>

\* The first result carrying the highest confidence found among all the results.
HighestConfidence(sorted_results) ==
    LET found == {sorted_results[i].result["confidence"] : i \in 1..Len(sorted_results)}
    IN  Put(sorted_results[1].result, "confidence",
            CHOOSE c \in found : \A d \in found : d <= c)

\* Line 190: worst_case = sorted_results[0]["result"]
Representative(sorted_results) == sorted_results[1].result

\* Lines 175-258: the worst case with the merged texts, for two or more results.
AggregateResults(all_results, all_pairs, unique) ==
    LET sorted_results == SortWorstFirst(all_results)
        worst_case == Representative(sorted_results)
        w1 == Put(worst_case, "explanations", AllExplanations(sorted_results))
        w2 == Put(w1, "recommendations", AllRecommendations(sorted_results))
        w3 == Put(w2, "interaction_summary",
                  MultiSummary(sorted_results, all_pairs, unique) \o <<"\n\n">>
                  \o GetSeq(w2, "interaction_summary"))
        w4 == Put(w3, "warnings",
                  <<"NOTE: Analysis covers all combinations of: ">> \o JoinComma(unique)
                  \o <<".", "\n", "Primary risk shown for: ">> \o sorted_results[1].pair[1]
                  \o <<" + ">> \o sorted_results[1].pair[2] \o <<".", "\n\n">>
                  \o GetSeq(w3, "warnings"))
    IN  Put(w4, "analyzed_drugs", unique)

\* Records whose explanation and recommendation entries are relabelled where they
\* are, without a copy.
RelabelledInPlace(all_results, worst_case) ==
    LET first == SortWorstFirst(all_results)[1]
    IN  [i \in 1..Len(all_results) |->
            IF all_results[i].pair = first.pair
            THEN [all_results[i] EXCEPT !.result = worst_case]
            ELSE [all_results[i] EXCEPT
                     !.result = Put(Put(@, "explanations",
                                        LabelExplanations(all_results[i])),
                                    "recommendations",
                                    LabelRecommendations(all_results[i]))]]

\* Lines 189-258: the records of results once the aggregation is done. worst_case is
\* the dict held by the first record of sorted_results, so the assignments to it
\* show in that record; exp.copy() and rec.copy() (lines 210, 216) keep the
\* relabelling out of every other record.
RecordsAfterAggregation(all_results, worst_case) ==
    LET first == SortWorstFirst(all_results)[1]
    IN  [i \in 1..Len(all_results) |->
            IF all_results[i].pair = first.pair
            THEN [all_results[i] EXCEPT !.result = worst_case]
            ELSE all_results[i]]

(***************************************************************************)
(* Properties of the refinement layer (SpecRefine)                         *)
(***************************************************************************)

Returned == refined # <<>>

PreRefinement == refine_call.prediction_data

ClassificationFields == {"interaction", "confidence", "risk_level", "severity"}

\* C1: whatever the external call does (a well-formed response, a response carrying
\* other classification values, a malformed, non-object or empty response, an
\* exception, no configured service), the result validate_and_refine returns has the
\* interaction, confidence, risk_level and severity of the pre-refinement result.
C1_ClassificationPreserved ==
    Returned => \A k \in ClassificationFields : refined[1][k] = PreRefinement[k]

\* C1 witness: a response carrying other classification values was merged.
C1_Witness ==
    /\ pc = "merged"
    /\ Has(enrichment.obj, "interaction")
    /\ enrichment.obj["interaction"] # PreRefinement["interaction"]
    /\ enrichment.obj["confidence"] # PreRefinement["confidence"]

\* C2: after the refinement layer completes, by merge or by fallback, the result has
\* a non-empty summary, non-empty warnings and non-empty lists of explanations,
\* recommendations and overlapping side effects.
C2_NonEmptyAfterRefinement ==
    Returned =>
        /\ GetSeq(refined[1], "interaction_summary") # <<>>
        /\ GetSeq(refined[1], "warnings") # <<>>
        /\ GetSeq(refined[1], "explanations") # <<>>
        /\ GetSeq(refined[1], "recommendations") # <<>>
        /\ GetSeq(refined[1], "side_effect_overlap") # <<>>

RequiredGroups ==
    {"interaction_summary", "warnings", "side_effect_overlap", "explanations",
     "recommendations"}

\* The enrichment step failed: no service, an exception, empty text, text that is no
\* JSON object, or an object that lacks a required group.
EnrichmentFailed ==
    \/ gemini_model = "none"
    \/ enrichment.kind = "raise"
    \/ enrichment.json # "object"
    \/ \E g \in RequiredGroups : ~Has(enrichment.obj, g)

\* C3: every failure of the enrichment step is routed to the local fallback, whose
\* result validate_and_refine returns.
C3_FailureRoutedToFallback ==
    (Returned /\ EnrichmentFailed) =>
        refined[1] = _apply_local_fallback(PreRefinement, refine_call.drug1,
                                           refine_call.drug2)

\* Explanation type t is covered by a non-empty text that is no placeholder.
CoveredByRealText(result, t) ==
    \E i \in 1..Len(GetSeq(result, "explanations")) :
        /\ result["explanations"][i].explanation_type = t
        /\ result["explanations"][i].explanation_text # <<>>
        /\ ~IsPlaceholder(result["explanations"][i].explanation_text)

\* C4: when the enrichment service throws, the final explanations cover the four
\* canonical types, each with a text that is no placeholder.
C4_FourTypesWhenEnrichmentThrows ==
    (Returned /\ gemini_model = "configured" /\ enrichment.kind = "raise") =>
        \A i \in 1..Len(required_types) : CoveredByRealText(refined[1], required_types[i])

\* C5: after the local fallback no summary, warnings or explanation text of the result
\* is empty or contains a placeholder marker.
C5_NoPlaceholderAfterFallback ==
    pc = "fallback" =>
        /\ GetSeq(refined[1], "interaction_summary") # <<>>
        /\ ~IsPlaceholder(GetSeq(refined[1], "interaction_summary"))
        /\ GetSeq(refined[1], "warnings") # <<>>
        /\ ~IsPlaceholder(GetSeq(refined[1], "warnings"))
        /\ \A i \in 1..Len(GetSeq(refined[1], "explanations")) :
              /\ refined[1]["explanations"][i].explanation_text # <<>>
              /\ ~IsPlaceholder(refined[1]["explanations"][i].explanation_text)

(***************************************************************************)
(* The worst-case selector on its own (SpecSelect)                         *)
(***************************************************************************)

\* Longest list of pair results handed to the selector.
MaxResults == 3

\* The selector reads three fields of a result; any list of dicts is an input.
SelectResults ==
    {[interaction |-> i, risk_level |-> r, confidence |-> c] :
        i \in {"Yes", "No"}, r \in {"High", "Moderate", "Low", "None"}, c \in {600, 900}}

\* The i-th pair of a list: pairs of one request are pairwise distinct.
PairAt(i) == << <<"a">>, <<ToString(i)>> >>

InitSelect ==
    /\ \E f \in UNION {[1..n -> SelectResults] : n \in 2..MaxResults} :
          sel_input = [i \in 1..Len(f) |-> [pair |-> PairAt(i), result |-> f[i]]]
    /\ sel_sorted = <<>>
    /\ pc = "select"
    /\ request = <<>> /\ gemini_model = "none" /\ explainer_data = "missing"
    /\ drugs = <<>> /\ unique_drugs = <<>> /\ pairs = <<>> /\ idx = 0 /\ results = <<>>
    /\ outcome = <<>> /\ predict_calls = <<>> /\ enrich_calls = 0
    /\ refine_call = <<>> /\ enrichment = NoResponse /\ refined = <<>>
    /\ name_in = <<>> /\ name_out = <<>>
    /\ prompt = <<>> /\ Elsewhere

\* predict.py lines 175-190: sorted_results; worst_case is sorted_results[0].
SelectWorstCase ==
    /\ pc = "select"
    /\ sel_sorted' = SortWorstFirst(sel_input)
    /\ pc' = "sorted"
    /\ UNCHANGED <<request, gemini_model, explainer_data, drugs, unique_drugs, pairs, idx,
                   results, outcome, predict_calls, enrich_calls, refine_call, enrichment,
                   refined, sel_input, name_in, name_out, prompt, raw_request, earlier, predictVars, authVars,
                   analyticsVars>>

NextSelect == SelectWorstCase

SpecSelect == InitSelect /\ [][NextSelect]_vars

\* The comparison the selector is specified by: interaction first, then the rank of
\* the risk level, then the confidence.
RankOfRisk(r) == IF r = "High" THEN 3 ELSE IF r = "Moderate" THEN 2 ELSE IF r = "Low" THEN 1 ELSE 0

Outranks(x, y) ==
    LET ix == x.result["interaction"] = "Yes"
        iy == y.result["interaction"] = "Yes"
        rx == RankOfRisk(x.result["risk_level"])
        ry == RankOfRisk(y.result["risk_level"])
    IN  \/ ix /\ ~iy
        \/ ix = iy /\ rx > ry
        \/ ix = iy /\ rx = ry /\ x.result["confidence"] > y.result["confidence"]

SameKey(x, y) == ~Outranks(x, y) /\ ~Outranks(y, x)

\* The first element, in list order, that no element outranks.
FirstMaximal(xs) ==
    CHOOSE i \in 1..Len(xs) :
        /\ \A j \in 1..Len(xs) : ~Outranks(xs[j], xs[i])
        /\ \A j \in 1..(i - 1) : Outranks(xs[i], xs[j])

\* The rearrangements of xs that keep the relative order of elements of equal key.
KeyOrderKeeping(xs) ==
    {[k \in 1..Len(xs) |-> xs[q[k]]] : q \in
        {q \in Permutations(1..Len(xs)) :
            \A k, l \in 1..Len(xs) : (k < l /\ SameKey(xs[q[k]], xs[q[l]])) => q[k] < q[l]}}

\* C6: the representative result is the first element, in input order, among those
\* of maximal key (interaction, then risk rank High 3 > Moderate 2 > Low 1 > other 0,
\* then confidence); so a Low-risk interaction outranks a High-risk non-interaction,
\* and rearranging the input without reordering equal keys leaves the choice alone.
C6_FirstOfTheWorst ==
    pc = "sorted" =>
        /\ sel_sorted[1] = sel_input[FirstMaximal(sel_input)]
        /\ \A i, j \in 1..Len(sel_input) :
              ( /\ sel_input[i].result["interaction"] = "Yes"
                /\ sel_input[i].result["risk_level"] = "Low"
                /\ sel_input[j].result["interaction"] = "No"
                /\ sel_input[j].result["risk_level"] = "High" ) => sel_sorted[1] # sel_input[j]
        /\ \A ys \in KeyOrderKeeping(sel_input) : SortWorstFirst(ys)[1] = sel_sorted[1]

\* C6 witness: a High-risk non-interaction comes first in the input, two Low-risk
\* interactions of equal key follow, and the first of these two is chosen.
C6_Witness ==
    /\ pc = "sorted"
    /\ Len(sel_input) = 3
    /\ sel_input[1].result = [interaction |-> "No", risk_level |-> "High", confidence |-> 900]
    /\ sel_input[2].result = [interaction |-> "Yes", risk_level |-> "Low", confidence |-> 600]
    /\ sel_input[3].result = sel_input[2].result
    /\ sel_sorted[1] = sel_input[2]



(***************************************************************************)
(* The /predict request (Spec): predict.py lines 131-258                   *)
(***************************************************************************)

None == <<>>
Some(name) == <<name>>

\* PredictionRequest: drug1 and drug2 are required and stripped, never blank;
\* drug3..drug5 are optional and taken as sent.
RequiredNames == {<<"A">>, <<"a">>, <<"b">>}
LongName == [i \in 1..(MaxDrugNameLen + 1) |-> "e"]
Drug3Values == {None, Some(<<" ">>), Some(<<"a">>), Some(<<"c">>), Some(LongName)}
BlankOrAbsent == {None, Some(<<" ">>)}

\* What Gemini answers to one call of a request: nothing usable, or a full object.
FullObject ==
    [interaction |-> "No", confidence |-> 1, risk_level |-> "None", severity |-> "Toxic"]
    @@ [interaction_summary |-> <<"Refined clinical summary">>]
    @@ [warnings |-> <<"Refined warning text">>]
    @@ [explanations |-> List(<<GeminiExp("Drug_Class", <<"Classes compared">>),
                                GeminiExp("side_effect", <<"Overlap analysed">>),
                                GeminiExp("pregnancy", <<"Pregnancy advice">>),
                                GeminiExp("alcohol", <<"Alcohol advice">>)>>)]
    @@ [side_effect_overlap |-> List(<<Str(<<" ", "Bleeding", " ">>), Str(<<>>)>>)]
    @@ [recommendations |-> List(<<Str(<<"Monitor INR">>), Obj(<<>>)>>)]

RequestResponses(model) ==
    IF model = "none" THEN {NoResponse}
    ELSE {NoResponse, [kind |-> "text", json |-> "object", obj |-> FullObject]}

Idle ==
    /\ refine_call = <<>> /\ enrichment = NoResponse /\ refined = <<>>
    /\ sel_input = <<>> /\ sel_sorted = <<>>
    /\ name_in = <<>> /\ name_out = <<>>
    /\ prompt = <<>> /\ Elsewhere

Started ==
    /\ pc = "collect"
    /\ drugs = <<>> /\ unique_drugs = <<>> /\ pairs = <<>> /\ idx = 0 /\ results = <<>>
    /\ outcome = <<>> /\ predict_calls = <<>> /\ enrich_calls = 0

Init ==
    /\ request \in [drug1 : {Some(n) : n \in RequiredNames},
                    drug2 : {Some(n) : n \in RequiredNames},
                    drug3 : Drug3Values, drug4 : BlankOrAbsent, drug5 : BlankOrAbsent]
    /\ gemini_model \in {"none", "configured"}
    /\ explainer_data \in {"missing", "loaded"}
    /\ Started
    /\ Idle

Failure(code, detail) == <<[status |-> code, detail |-> detail, body |-> <<>>]>>
Success(body) == <<[status |-> 200, detail |-> "", body |-> <<body>>]>>

NotRouting == UNCHANGED <<request, gemini_model, explainer_data, refine_call, enrichment,
                          refined, sel_input, sel_sorted, name_in, name_out, prompt,
                          raw_request, earlier, predictVars, authVars, analyticsVars>>

\* Lines 131-140: the non-blank names, their sorted set, and the 400 under two.
CollectDrugs ==
    /\ pc = "collect"
    /\ drugs' = CollectFrom(request, 1)
    /\ unique_drugs' = SortedList(UniqueDrugSet(drugs'))
    /\ IF Len(unique_drugs') < 2
       THEN /\ outcome' = Failure(400, "At least 2 unique drugs are required")
            /\ pc' = "done"
       ELSE /\ outcome' = outcome
            /\ pc' = "pairs"
    /\ UNCHANGED <<pairs, idx, results, predict_calls, enrich_calls>>
    /\ NotRouting

\* Lines 142-146: all pairs of the unique names.
GeneratePairs ==
    /\ pc = "pairs"
    /\ pairs' = Combinations2(unique_drugs)
    /\ idx' = 1
    /\ pc' = "loop"
    /\ UNCHANGED <<drugs, unique_drugs, results, outcome, predict_calls, enrich_calls>>
    /\ NotRouting

InLoop == pc = "loop" /\ idx <= Len(pairs)

\* Lines 148-151: a pair that fails validation is skipped.
SkipInvalidPair ==
    /\ InLoop
    /\ ~validate_drug_input(pairs[idx][1], pairs[idx][2])
    /\ idx' = idx + 1
    /\ UNCHANGED <<pc, drugs, unique_drugs, pairs, results, outcome, predict_calls,
                   enrich_calls>>
    /\ NotRouting

\* Lines 153-163: the predictor answers and the result is appended.
PredictPair ==
    /\ InLoop
    /\ validate_drug_input(pairs[idx][1], pairs[idx][2])
    /\ \E p \in Probas, response \in RequestResponses(gemini_model) :
          results' = Append(results,
              [pair |-> pairs[idx],
               result |-> predict_interaction(pairs[idx][1], pairs[idx][2], p,
                                              explainer_data, gemini_model, response)])
    /\ predict_calls' = Append(predict_calls, pairs[idx])
    /\ enrich_calls' = enrich_calls + (IF gemini_model = "none" THEN 0 ELSE 1)
    /\ idx' = idx + 1
    /\ UNCHANGED <<pc, drugs, unique_drugs, pairs, outcome>>
    /\ NotRouting

\* ddi_service.py lines 158 and 331-333, predict.py lines 260-261: the classifier
\* raises, the predictor re-raises, the handler catches only HTTPException, and the
\* request ends in a server error.
PredictRaises ==
    /\ InLoop
    /\ validate_drug_input(pairs[idx][1], pairs[idx][2])
    /\ predict_calls' = Append(predict_calls, pairs[idx])
    /\ outcome' = Failure(500, "Internal Server Error")
    /\ pc' = "done"
    /\ UNCHANGED <<drugs, unique_drugs, pairs, idx, results, enrich_calls>>
    /\ NotRouting

LoopDone == pc = "loop" /\ idx > Len(pairs)

\* Lines 165-169
NoValidPairs ==
    /\ LoopDone /\ results = <<>>
    /\ outcome' = Failure(400, "No valid drug pairs found for analysis")
    /\ pc' = "done"
    /\ UNCHANGED <<drugs, unique_drugs, pairs, idx, results, predict_calls, enrich_calls>>
    /\ NotRouting

\* The only result with the list of its two drugs added to it.
SingleWithDrugList(all_results) ==
    Put(all_results[1].result, "analyzed_drugs",
        <<all_results[1].pair[1], all_results[1].pair[2]>>)

\* Line 173: results[0]["result"]
SingleResult(all_results) == all_results[1].result

\* Lines 171-173
ReturnSingle ==
    /\ LoopDone /\ Len(results) = 1
    /\ outcome' = Success(SingleResult(results))
    /\ pc' = "done"
    /\ UNCHANGED <<drugs, unique_drugs, pairs, idx, results, predict_calls, enrich_calls>>
    /\ NotRouting

\* Lines 175-258: worst_case is the dict held by its entry of results, and the
\* assignments to it are seen through that entry too.
Aggregate ==
    /\ LoopDone /\ Len(results) > 1
    /\ LET worst_case == AggregateResults(results, pairs, unique_drugs)
       IN  /\ outcome' = Success(worst_case)
           /\ results' = RecordsAfterAggregation(results, worst_case)
    /\ pc' = "done"
    /\ UNCHANGED <<drugs, unique_drugs, pairs, idx, predict_calls, enrich_calls>>
    /\ NotRouting

Next ==
    \/ CollectDrugs
    \/ GeneratePairs
    \/ SkipInvalidPair
    \/ PredictPair
    \/ PredictRaises
    \/ NoValidPairs
    \/ ReturnSingle
    \/ Aggregate

Spec == Init /\ [][Next]_vars


(***************************************************************************)
(* The pairwise expansion alone (SpecExpand): predict.py lines 131-144,    *)
(* with every slot of the request drawn from a pool of five names          *)
(***************************************************************************)

ExpandNames == {<<"A">>, <<"a">>, <<"b">>, <<"c">>, <<"d">>}
ExpandOptional == BlankOrAbsent \cup {Some(n) : n \in ExpandNames}

InitExpand ==
    /\ request \in [drug1 : {Some(n) : n \in ExpandNames},
                    drug2 : {Some(n) : n \in ExpandNames},
                    drug3 : ExpandOptional, drug4 : ExpandOptional,
                    drug5 : ExpandOptional]
    /\ gemini_model = "none"
    /\ explainer_data = "missing"
    /\ Started
    /\ Idle

NextExpand == CollectDrugs \/ GeneratePairs

SpecExpand == InitExpand /\ [][NextExpand]_vars

(***************************************************************************)
(* Properties of the request handler                                       *)
(***************************************************************************)

InsufficientDrugs == Failure(400, "At least 2 unique drugs are required")
NoValidPairsError == Failure(400, "No valid drug pairs found for analysis")

NormalizedNames == {normalize_drug_name(d) : d \in Range(drugs)}

\* C7: once the non-blank names are collected, fewer than two names that differ
\* after normalization mean the insufficient-drugs error, with no pair formed and
\* no call of the predictor.
C7_DedupByNormalizedForm ==
    (pc # "collect" /\ Cardinality(NormalizedNames) < 2)
        => /\ outcome = InsufficientDrugs
           /\ pairs = <<>>
           /\ predict_calls = <<>>

Expanded == pc = "loop" /\ Len(unique_drugs) \in 2..5

Occurrences(x, y) ==
    {i \in 1..Len(pairs) : pairs[i] \in {<<x, y>>, <<y, x>>}}

\* C8: N unique names, 2 <= N <= 5, give N(N-1)/2 pairs, each of two distinct names,
\* and every unordered pair of distinct names is there exactly once.
C8_AllPairsOnce ==
    Expanded =>
        LET N == Len(unique_drugs)
            names == Range(unique_drugs)
        IN  /\ 2 * Len(pairs) = N * (N - 1)
            /\ \A i \in 1..Len(pairs) :
                  pairs[i][1] # pairs[i][2] /\ {pairs[i][1], pairs[i][2]} \subseteq names
            /\ \A x \in names : \A y \in names \ {x} : Cardinality(Occurrences(x, y)) = 1

C8_Witness == Expanded /\ Len(unique_drugs) = 5 /\ Len(pairs) = 10

\* A pair survives validation: two non-blank names of at most 200 characters that
\* differ after normalization.
Survives(pair) ==
    /\ normalize_drug_name(pair[1]) # <<>>
    /\ normalize_drug_name(pair[2]) # <<>>
    /\ Len(pair[1]) <= 200 /\ Len(pair[2]) <= 200
    /\ normalize_drug_name(pair[1]) # normalize_drug_name(pair[2])

Finished == pc = "done" /\ outcome # <<>>

\* C9: a request whose pairs all fail validation ends in the no-valid-pairs error,
\* and a request that returns a result has at least one pair behind it, each such
\* pair having survived validation and been given to the predictor.
C9_ResultNeedsAPair ==
    Finished =>
        /\ (pairs # <<>> /\ \A i \in 1..Len(pairs) : ~Survives(pairs[i]))
              => outcome = NoValidPairsError
        /\ outcome[1].status = 200
              => /\ results # <<>>
                 /\ \A i \in 1..Len(results) :
                       /\ Survives(results[i].pair)
                       /\ \E k \in 1..Len(predict_calls) : predict_calls[k] = results[i].pair

C9_Witness ==
    /\ Finished /\ outcome = NoValidPairsError
    /\ pairs # <<>> /\ predict_calls = <<>>

\* C10: a classifier error on one pair does not end the request: every surviving
\* pair is still given to the predictor, and the request ends with a result or, when
\* no pair gave a result, with the no-valid-pairs error.
C10_ClassifierErrorDropsPair ==
    (Finished /\ pairs # <<>>) =>
        /\ \A i \in 1..Len(pairs) :
              Survives(pairs[i]) => \E k \in 1..Len(predict_calls) : predict_calls[k] = pairs[i]
        /\ \/ outcome[1].status = 200
           \/ outcome = NoValidPairsError

(***************************************************************************)
(* Properties of the request handler, continued                            *)
(***************************************************************************)

\* C11: the enrichment service is invoked at most once in a request, whatever the
\* number of pairs, and only on the representative result once the request has
\* selected and aggregated.
C11_EnrichOncePerRequest ==
    /\ enrich_calls <= 1
    /\ enrich_calls > 0 => ~(pc = "loop" /\ idx <= Len(pairs))

ReturnedBody == outcome[1].body[1]

ReturnedAResult == Finished /\ outcome[1].status = 200

\* What the predictor can answer for a pair in this request.
PredictorOutputs(pair) ==
    {predict_interaction(pair[1], pair[2], p, explainer_data, gemini_model, response) :
        p \in Probas, response \in RequestResponses(gemini_model)}

StartsWith(text, prefix) ==
    Len(text) >= Len(prefix) /\ SubSeq(text, 1, Len(prefix)) = prefix

\* C12: with exactly one pair result the request returns that result as the
\* predictor gave it: every field equal, no list of analyzed drugs, no summary
\* header, no warning note, no pair label on an explanation or a recommendation.
C12_SinglePairVerbatim ==
    (ReturnedAResult /\ Len(results) = 1) =>
        /\ ReturnedBody = results[1].result
        /\ ReturnedBody \in PredictorOutputs(results[1].pair)
        /\ ~Has(ReturnedBody, "analyzed_drugs")
        /\ ~StartsWith(GetSeq(ReturnedBody, "interaction_summary"), <<"Analyzed ">>)
        /\ ~StartsWith(GetSeq(ReturnedBody, "warnings"),
                       <<"NOTE: Analysis covers all combinations of: ">>)
        /\ \A i \in 1..Len(GetSeq(ReturnedBody, "explanations")) :
              ~StartsWith(ReturnedBody["explanations"][i].explanation_text, <<"[">>)
        /\ \A i \in 1..Len(GetSeq(ReturnedBody, "recommendations")) :
              ~StartsWith(ReturnedBody["recommendations"][i].reason, <<"[">>)

C12_Witness ==
    /\ ReturnedAResult /\ Len(results) = 1
    /\ GetSeq(ReturnedBody, "explanations") # <<>>
    /\ GetSeq(ReturnedBody, "recommendations") # <<>>

AggregatorFields ==
    {"interaction_summary", "warnings", "explanations", "recommendations", "analyzed_drugs"}

\* The step that aggregates two or more results and returns.
Aggregates == LoopDone /\ Len(results) > 1 /\ pc' = "done"

\* C13: for two or more results, the returned result has the interaction,
\* confidence, risk_level and severity that the predictor gave for the selected
\* pair, and differs from that pair's result in nothing but the summary, the
\* warnings, the explanations, the recommendations and the analyzed drugs.
C13_AggregatorFrame ==
    [][Aggregates =>
          LET chosen == results[FirstMaximal(results)]
              body == outcome'[1].body[1]
          IN  /\ chosen.result \in PredictorOutputs(chosen.pair)
              /\ \A f \in ClassificationFields : body[f] = chosen.result[f]
              /\ DOMAIN body \ AggregatorFields = DOMAIN chosen.result \ AggregatorFields
              /\ \A k \in DOMAIN body \ AggregatorFields : body[k] = chosen.result[k]]_vars

\* C13 witness: an aggregated result whose pair was not the first one evaluated and
\* whose confidence is not the highest of the request.
C13_Witness ==
    /\ ReturnedAResult /\ Len(results) > 1
    /\ results[1].result # ReturnedBody
    /\ \E i \in 1..Len(results) :
          results[i].result["confidence"] > ReturnedBody["confidence"]

\* The positions of the results with an interaction, worst first, equal keys in the
\* order of evaluation.
WorstFirstInteracting(xs) ==
    LET hits == {i \in 1..Len(xs) : xs[i].result["interaction"] = "Yes"}
        n == Cardinality(hits)
    IN  CHOOSE q \in [1..n -> hits] :
            \A k, l \in 1..n :
                k < l => \/ Outranks(xs[q[k]], xs[q[l]])
                         \/ SameKey(xs[q[k]], xs[q[l]]) /\ q[k] < q[l]

\* The line of one pair.
RiskLine(x) ==
    <<"* ">> \o x.pair[1] \o <<" + ">> \o x.pair[2]
    \o <<": ", x.result["risk_level"], " Risk Detected">>

\* The header after its first line: the count and one line per position of q, or
\* the single line that says no interaction was found.
RECURSIVE LinesFrom(_, _, _)
LinesFrom(xs, q, k) ==
    IF k > Len(q) THEN <<>>
    ELSE (IF k = 1 THEN <<>> ELSE <<"\n">>) \o RiskLine(xs[q[k]]) \o LinesFrom(xs, q, k + 1)

ExpectedFindings(xs) ==
    LET q == WorstFirstInteracting(xs)
    IN  IF Len(q) = 0
        THEN <<"No significant interactions detected among any combination.">>
        ELSE <<"DETECTED ", ToString(Len(q)), " INTERACTION(S):", "\n">>
             \o LinesFrom(xs, q, 1)

\* Where the first line of a text ends.
EndOfFirstLine(text) ==
    CHOOSE i \in 1..Len(text) : text[i] = "\n" /\ \A j \in 1..(i - 1) : text[j] # "\n"

\* C14: the summary of an aggregated result is a first line, then either the count
\* of interacting pairs with one "<drugA> + <drugB>: <risk> Risk Detected" line for
\* each of them and for no other pair, worst first, or the single line saying that no
\* significant interaction was found; then a blank line; then the summary the
\* predictor gave for the selected pair.
C14_SummaryLines ==
    [][Aggregates =>
          LET chosen == results[FirstMaximal(results)]
              summary == outcome'[1].body[1]["interaction_summary"]
          IN  /\ summary[1] = "Analyzed "
              /\ \E i \in 1..Len(summary) : summary[i] = "\n"
              /\ SubSeq(summary, EndOfFirstLine(summary) + 1, Len(summary))
                    = ExpectedFindings(results) \o <<"\n\n">>
                      \o GetSeq(chosen.result, "interaction_summary")]_vars

\* C14 witness: three results, of which exactly two have an interaction, the one
\* evaluated first being the lesser of the two.
C14_Witness ==
    /\ ReturnedAResult /\ Len(results) = 3
    /\ results[3].result["interaction"] = "No"
    /\ results[1].result["interaction"] = "Yes" /\ results[2].result["interaction"] = "Yes"
    /\ results[2].result = ReturnedBody

\* C15: the first line of an aggregated summary reports as many pairs as the
\* predictor evaluated (those that survived validation) and as many drugs as there
\* are unique drugs.
C15_ReportedCounts ==
    (ReturnedAResult /\ Len(results) > 1) =>
        LET summary == ReturnedBody["interaction_summary"]
        IN  /\ summary[1] = "Analyzed "
            /\ summary[2] = ToString(Len(predict_calls))
            /\ summary[3] = " pairs from "
            /\ summary[4] = ToString(Len(unique_drugs))
            /\ summary[5] = " drugs."

(***************************************************************************)
(* normalize_drug_name alone (SpecNormalize): preprocess.py lines 8-27     *)
(***************************************************************************)

MaxNameLen == 6

NameAtoms == {"\t", " ", "A", "a", "b"}

\* Every string of at most MaxNameLen atoms, the empty one included.
Names == UNION {[1..n -> NameAtoms] : n \in 0..MaxNameLen}

InitNormalize ==
    /\ name_in \in Names
    /\ name_out = <<>>
    /\ pc = "normalize"
    /\ request = <<>> /\ gemini_model = "none" /\ explainer_data = "missing"
    /\ drugs = <<>> /\ unique_drugs = <<>> /\ pairs = <<>> /\ idx = 0 /\ results = <<>>
    /\ outcome = <<>> /\ predict_calls = <<>> /\ enrich_calls = 0
    /\ refine_call = <<>> /\ enrichment = NoResponse /\ refined = <<>>
    /\ sel_input = <<>> /\ sel_sorted = <<>>
    /\ prompt = <<>> /\ Elsewhere

\* One call of normalize_drug_name.
Normalize ==
    /\ pc = "normalize"
    /\ name_out' = <<normalize_drug_name(name_in)>>
    /\ pc' = "normalized"
    /\ UNCHANGED <<request, gemini_model, explainer_data, drugs, unique_drugs, pairs, idx,
                   results, outcome, predict_calls, enrich_calls, refine_call, enrichment,
                   refined, sel_input, sel_sorted, name_in, prompt, raw_request, earlier, predictVars, authVars,
                   analyticsVars>>

NextNormalize == Normalize

SpecNormalize == InitNormalize /\ [][NextNormalize]_vars

\* C16: normalizing a normalized name gives it back unchanged.
C16_NormalizeIdempotent ==
    pc = "normalized" => normalize_drug_name(name_out[1]) = name_out[1]

\* C16 witness: a name with upper case, whitespace at both ends and a run of
\* whitespace inside, all of which the first normalization changed.
C16_Witness ==
    /\ pc = "normalized"
    /\ name_in = <<" ", "A", "\t", " ", "b", " ">>
    /\ name_out[1] = <<"a", " ", "b">>

(***************************************************************************)
(* Properties of the refinement layer, continued                           *)
(***************************************************************************)

Merged == pc = "merged" /\ Returned

\* The explanations the external response supplied, <<>> when it supplied no list.
ExternalExplanations ==
    IF IsNonEmptyList(enrichment.obj, "explanations")
    THEN Untag(enrichment.obj["explanations"].v) ELSE <<>>

OfType(exps, t) == {i \in 1..Len(exps) : ExpKey(exps[i]) = t}

\* C17: on a merge, for each canonical type: an original explanation that is no
\* placeholder is kept; otherwise the external explanation of that type, if one was
\* supplied, takes its place; otherwise the local fallback fills the entry, so that
\* the type is covered by a text that is no placeholder.
C17_MergeRulePerType ==
    Merged =>
        \A k \in 1..Len(required_types) :
            LET t == required_types[k]
                orig == GetSeq(PreRefinement, "explanations")
                ext == ExternalExplanations
                got == GetSeq(refined[1], "explanations")
                usable == {i \in OfType(orig, t) :
                              ~IsPlaceholder(GetSeq(orig[i], "explanation_text"))}
            IN  IF usable # {}
                THEN \E i \in usable : \A j \in OfType(got, t) : got[j] = orig[i]
                ELSE IF OfType(ext, t) # {}
                THEN \E i \in OfType(ext, t) : \A j \in OfType(got, t) :
                        got[j] = FromGemini(t, ext[i])
                ELSE CoveredByRealText(refined[1], t)

IsCanonical(exp) == ExpKey(exp) \in Range(required_types)

IsOther(exp) == ~IsCanonical(exp)

TypeIndex(exp) == CHOOSE k \in 1..Len(required_types) : required_types[k] = ExpKey(exp)

\* C18: when the external response carries a non-empty explanations list, the merged
\* list is at most one entry per canonical type, in the order drug_class,
\* side_effect, pregnancy, alcohol, followed by every external explanation of another
\* type, as supplied and in the order supplied, and nothing else.
C18_MergedListShape ==
    (Merged /\ ExternalExplanations # <<>>) =>
        LET got == GetSeq(refined[1], "explanations")
        IN  \E n \in 0..Len(got) :
                /\ \A i \in 1..n : IsCanonical(got[i])
                /\ \A i, j \in 1..n : i < j => TypeIndex(got[i]) < TypeIndex(got[j])
                /\ SubSeq(got, n + 1, Len(got)) = SelectSeq(ExternalExplanations, IsOther)

(***************************************************************************)
(* Properties of the loop over the pairs                                   *)
(***************************************************************************)

RanToTheEnd == Finished /\ pairs # <<>> /\ outcome[1].status # 500

WorstFirstOrder(xs) ==
    CHOOSE q \in [1..Len(xs) -> 1..Len(xs)] :
        /\ \A k, l \in 1..Len(xs) : k # l => q[k] # q[l]
        /\ \A k, l \in 1..Len(xs) :
              k < l => \/ Outranks(xs[q[k]], xs[q[l]])
                       \/ SameKey(xs[q[k]], xs[q[l]]) /\ q[k] < q[l]

PairLabel(x) == <<"[">> \o x.pair[1] \o <<" + ">> \o x.pair[2] \o <<"] ">>

\* The entries of one list of result x, the text under key labelled with x's pair.
WithPairLabel(x, list, key) ==
    LET entries == GetSeq(x.result, list)
    IN  [i \in 1..Len(entries) |->
            [entries[i] EXCEPT ![key] = PairLabel(x) \o entries[i][key]]]

RECURSIVE ConcatInOrder(_, _, _, _, _)
ConcatInOrder(xs, q, k, list, key) ==
    IF k > Len(q) THEN <<>>
    ELSE WithPairLabel(xs[q[k]], list, key) \o ConcatInOrder(xs, q, k + 1, list, key)

\* C20: the explanations of an aggregated result are the explanations of every pair,
\* pairs taken worst first (the selected pair first) and each pair's explanations in
\* their own order, each text behind the label "[drugA + drugB] " of its own pair;
\* the recommendations are built the same way, the label going before each reason.
C20_MergedListsLabelled ==
    [][Aggregates =>
          LET body == outcome'[1].body[1]
              q == WorstFirstOrder(results)
          IN  /\ q[1] = FirstMaximal(results)
              /\ body["explanations"]
                    = ConcatInOrder(results, q, 1, "explanations", "explanation_text")
              /\ body["recommendations"]
                    = ConcatInOrder(results, q, 1, "recommendations", "reason")]_vars

\* C20 witness: three results, the selected one not evaluated first, with the
\* explanations and recommendations of several pairs in the merged lists.
C20_Witness ==
    /\ ReturnedAResult /\ Len(results) = 3
    /\ results[3].result = ReturnedBody
    /\ Len(ReturnedBody["explanations"]) >= 6
    /\ \E i, j \in 1..Len(ReturnedBody["recommendations"]) :
          /\ StartsWith(ReturnedBody["recommendations"][i].reason, PairLabel(results[1]))
          /\ StartsWith(ReturnedBody["recommendations"][j].reason, PairLabel(results[3]))

(***************************************************************************)
(* The external call and what it is sent                                    *)
(***************************************************************************)

\* The call is waiting for the external service.
Waiting == pc = "waiting" /\ ~Returned

\* C21: a refinement invocation always completes: while it waits for an external
\* service that never responds it can still take a step (the timeout that sends it to
\* the local fallback), so it is never left waiting without a way to return.
C21_RefinementCompletes == Waiting => ENABLED NextRefine

\* The external service has been called.
Sent == prompt # <<>>

\* C24: the payload sent to the external service holds the classification fields and,
\* of the summary and the explanation texts, only those that are placeholders; a text
\* without a marker token is not in it.
C24_PayloadOnlyPlaceholders ==
    Sent => prompt[1] = PlaceholdersOnly(refine_call.prediction_data, refine_call.drug1,
                                         refine_call.drug2)

(***************************************************************************)
(* The side-effect and recommendation rules of the merge                    *)
(***************************************************************************)

\* The entries of a list the response carries under key, <<>> when it carries none.
ExternalList(key) ==
    IF IsNonEmptyList(enrichment.obj, key) THEN enrichment.obj[key].v ELSE <<>>

\* A string with at least one atom that is no whitespace.
NonBlank(entry) == entry.t = "str" /\ \E i \in 1..Len(entry.v) : ~IsSpace(entry.v[i])

\* The external side-effect list, blank entries removed and the others trimmed.
FilteredSideEffects ==
    LET kept == SelectSeq(ExternalList("side_effect_overlap"), NonBlank)
    IN  [i \in 1..Len(kept) |-> Strip(kept[i].v)]

\* The merged result has under key what the result had before the refinement.
Retained(key) ==
    /\ Has(refined[1], key) <=> Has(PreRefinement, key)
    /\ Has(PreRefinement, key) => refined[1][key] = PreRefinement[key]

\* C22: on merge the side-effect overlap list becomes the external list without its
\* blank entries and with the others trimmed when that list is not empty; otherwise
\* the list of the original result is retained unchanged.
C22_SideEffectsReplaced ==
    Merged =>
        IF FilteredSideEffects # <<>>
        THEN /\ Has(refined[1], "side_effect_overlap")
             /\ refined[1]["side_effect_overlap"] = FilteredSideEffects
        ELSE Retained("side_effect_overlap")

\* A merge that dropped a blank entry and trimmed another one.
C22_Witness ==
    /\ Merged
    /\ FilteredSideEffects # <<>>
    /\ Len(FilteredSideEffects) < Len(ExternalList("side_effect_overlap"))
    /\ \E i \in 1..Len(ExternalList("side_effect_overlap")) :
          LET e == ExternalList("side_effect_overlap")[i]
          IN  NonBlank(e) /\ Strip(e.v) # e.v
    /\ refined[1]["side_effect_overlap"] = FilteredSideEffects

\* The Recommendation a string entry or an object entry is normalized to.
NormalizedRec(entry) ==
    IF entry.t = "str"
    THEN [alternative_drug |-> <<"Consult Doctor">>, reason |-> entry.v,
          safety_score |-> 0, medical_condition |-> "N/A"]
    ELSE [alternative_drug |-> Get(entry.v, "alternative_drug", <<"Alternative">>),
          reason |-> Get(entry.v, "reason", <<"Better safety profile.">>),
          safety_score |-> Get(entry.v, "safety_score", 800),
          medical_condition |-> Get(entry.v, "medical_condition", "N/A")]

IsStringOrObject(entry) == entry.t \in {"str", "obj"}

\* The external entries that can be normalized: the strings and the objects.
UsableRecs == SelectSeq(ExternalList("recommendations"), IsStringOrObject)

\* C23: on merge, an external recommendations list with at least one string or object
\* entry replaces the original recommendations by those entries normalized, one
\* output entry per string or object entry and in their order, a string becoming the
\* reason of a "Consult Doctor" recommendation; entries of another type are skipped,
\* and without any usable entry the original recommendations are retained.
C23_UsableRecsReplace ==
    Merged =>
        IF UsableRecs # <<>>
        THEN /\ Has(refined[1], "recommendations")
             /\ Len(refined[1]["recommendations"]) = Len(UsableRecs)
             /\ \A i \in 1..Len(UsableRecs) :
                   refined[1]["recommendations"][i] = NormalizedRec(UsableRecs[i])
        ELSE Retained("recommendations")

\* A merge that replaced the recommendations and skipped an entry that is neither a
\* string nor an object.
C23_Witness ==
    /\ Merged
    /\ UsableRecs # <<>>
    /\ Len(UsableRecs) < Len(ExternalList("recommendations"))
    /\ refined[1]["recommendations"] # GetSeq(PreRefinement, "recommendations")
    /\ \E i \in 1..Len(UsableRecs) :
          /\ UsableRecs[i].t = "str"
          /\ refined[1]["recommendations"][i].reason = UsableRecs[i].v

\* C23 as stated: every non-empty external list replaces the original recommendations,
\* with one output entry per external entry.
C23_EveryEntryReplaces ==
    Merged =>
        IF ExternalList("recommendations") # <<>>
        THEN /\ Has(refined[1], "recommendations")
             /\ Len(refined[1]["recommendations"]) = Len(ExternalList("recommendations"))
             /\ \A i \in 1..Len(ExternalList("recommendations")) :
                   LET e == ExternalList("recommendations")[i]
                   IN  IsStringOrObject(e) =>
                          refined[1]["recommendations"][i] = NormalizedRec(e)
        ELSE Retained("recommendations")

(***************************************************************************)
(* The list of analyzed drugs                                               *)
(***************************************************************************)

\* C25: the analyzed_drugs of a multi-pair result lists every analyzed drug once,
\* uniqueness being taken on the normalized name: no two of its entries have the
\* same normalized name.
C25_AnalyzedDrugsUniqueNormalized ==
    (ReturnedAResult /\ Has(ReturnedBody, "analyzed_drugs")) =>
        LET analyzed == ReturnedBody["analyzed_drugs"]
        IN  \A i, j \in 1..Len(analyzed) :
               i # j => normalize_drug_name(analyzed[i]) # normalize_drug_name(analyzed[j])

(***************************************************************************)
(* The pair predictor alone (SpecPredict): ddi_service.py lines 106-247,   *)
(* one call for every raw probability of the scale                          *)
(***************************************************************************)

\* The raw probabilities model.predict can return, in thousandths.
AllProbas == 0..1000

\* No request, no refinement call, no sort and no normalization is going on.
NoRequest ==
    /\ request = <<>>
    /\ drugs = <<>> /\ unique_drugs = <<>> /\ pairs = <<>> /\ idx = 0 /\ results = <<>>
    /\ outcome = <<>> /\ predict_calls = <<>> /\ enrich_calls = 0
    /\ refine_call = <<>> /\ enrichment = NoResponse /\ refined = <<>> /\ prompt = <<>>
    /\ sel_input = <<>> /\ sel_sorted = <<>>
    /\ name_in = <<>> /\ name_out = <<>>

InitPredict ==
    /\ predict_in \in [drug1 : {<<"A">>}, drug2 : {<<"b">>, <<"c">>}, proba : AllProbas]
    /\ predict_out = <<>>
    /\ gemini_model \in {"none", "configured"}
    /\ explainer_data \in {"missing", "loaded"}
    /\ pc = "predict"
    /\ NoRequest
    /\ raw_request = <<>> /\ earlier = <<>> /\ AuthIdle /\ AnalyticsIdle

\* DDIService.predict_interaction without a database session: the response is built
\* from the raw probability and refined.
Predict ==
    /\ pc = "predict"
    /\ \E response \in RequestResponses(gemini_model) :
          predict_out' = <<predict_interaction(predict_in.drug1, predict_in.drug2,
                                               predict_in.proba, explainer_data,
                                               gemini_model, response)>>
    /\ pc' = "predicted"
    /\ UNCHANGED <<request, gemini_model, explainer_data, drugs, unique_drugs, pairs, idx,
                   results, outcome, predict_calls, enrich_calls, refine_call, enrichment,
                   refined, sel_input, sel_sorted, name_in, name_out, prompt, raw_request,
                   earlier, predict_in, authVars, analyticsVars>>

NextPredict == Predict

SpecPredict == InitPredict /\ [][NextPredict]_vars

Predicted == pc = "predicted" /\ predict_out # <<>>

\* C28: whatever the raw probability p, the result of the pair predictor is
\* consistent: interaction Yes iff p > 0.5; risk_level High iff p >= 0.8, Moderate iff
\* 0.5 <= p < 0.8, Low otherwise; severity Severe, Moderate, Mild for High, Moderate,
\* Low; confidence at least 0.5; so an interaction is never Low and High is never No.
C28_PredictorConsistent ==
    Predicted =>
        LET r == predict_out[1]
            p == predict_in.proba
        IN  /\ r["interaction"] \in {"Yes", "No"}
            /\ r["interaction"] = "Yes" <=> p > 500
            /\ r["risk_level"] \in {"High", "Moderate", "Low"}
            /\ r["risk_level"] = "High" <=> p >= 800
            /\ r["risk_level"] = "Moderate" <=> (p >= 500 /\ p < 800)
            /\ r["severity"] = "Severe" <=> r["risk_level"] = "High"
            /\ r["severity"] = "Moderate" <=> r["risk_level"] = "Moderate"
            /\ r["severity"] = "Mild" <=> r["risk_level"] = "Low"
            /\ r["confidence"] >= 500
            /\ r["confidence"] = (IF p > 500 THEN p ELSE 1000 - p)
            /\ r["interaction"] = "Yes" => r["risk_level"] # "Low"
            /\ r["risk_level"] = "High" => r["interaction"] = "Yes"

\* The results at the two thresholds: p = 0.5 is no interaction of Moderate risk with
\* confidence 0.5, p = 0.8 is an interaction of High risk, after a merge of a response.
C28_Witness ==
    /\ Predicted
    /\ \/ /\ predict_in.proba = 500
          /\ predict_out[1]["interaction"] = "No"
          /\ predict_out[1]["risk_level"] = "Moderate"
          /\ predict_out[1]["confidence"] = 500
       \/ /\ predict_in.proba = 800
          /\ predict_out[1]["risk_level"] = "High"
          /\ predict_out[1]["severity"] = "Severe"
    /\ gemini_model = "configured"
    /\ predict_out[1]["interaction_summary"] = <<"Refined clinical summary">>

(***************************************************************************)
(* The records the aggregation leaves alone                                 *)
(***************************************************************************)

\* C29: the aggregation of two or more results changes no record but the
\* representative's: every other pair keeps its record, whose explanations,
\* recommendations, summary, warnings and classification are still what the
\* predictor returned, and the representative's record becomes the returned result.
C29_OtherRecordsUnchanged ==
    [][Aggregates =>
          /\ Len(results') = Len(results)
          /\ \A i \in 1..Len(results) :
                IF i = FirstMaximal(results)
                THEN /\ results'[i].pair = results[i].pair
                     /\ results'[i].result = outcome'[1].body[1]
                ELSE /\ results'[i] = results[i]
                     /\ results'[i].result \in PredictorOutputs(results[i].pair)]_vars

\* C29 witness: after an aggregation, a pair that is not the representative has
\* explanations and recommendations, the returned lists carry them with the pair's
\* label, and the pair's own record has them without it.
C29_Witness ==
    /\ ReturnedAResult /\ Len(results) > 1
    /\ \E i \in 1..Len(results) :
          LET item == results[i]
              exps == GetSeq(item.result, "explanations")
              recs == GetSeq(item.result, "recommendations")
          IN  /\ item.result # ReturnedBody
              /\ exps # <<>> /\ recs # <<>>
              /\ item.result \in PredictorOutputs(item.pair)
              /\ \E k \in 1..Len(ReturnedBody["explanations"]) :
                    ReturnedBody["explanations"][k].explanation_text
                        = Labelled(item.pair, exps[1].explanation_text)
              /\ \E k \in 1..Len(ReturnedBody["recommendations"]) :
                    ReturnedBody["recommendations"][k].reason
                        = Labelled(item.pair, recs[1].reason)

(***************************************************************************)
(* The same body sent in two orders (SpecOrder): schemas.py lines 65-77    *)
(* and predict.py lines 131-144                                             *)
(***************************************************************************)

\* The JSON bodies a client sends: each field absent (null) or a string, as typed.
OrderBodies ==
    [drug1 : {Some(<<"a">>), Some(<<"b">>)},
     drug2 : {Some(<<"a">>), Some(<<"b">>)},
     drug3 : {None, Some(<<"a", " ">>), Some(<<"c">>)},
     drug4 : {None, Some(<<" ">>)},
     drug5 : {None, Some(<<"b">>)}]

\* The ways to list five values in the five fields.
Orders ==
    {f \in [1..Len(Slots) -> 1..Len(Slots)] :
        \A i, j \in 1..Len(Slots) : f[i] = f[j] => i = j}

\* The body whose field number i holds what field number order[i] of body held.
Permuted(body, order) ==
    [drug1 |-> body[Slots[order[1]]], drug2 |-> body[Slots[order[2]]],
     drug3 |-> body[Slots[order[3]]], drug4 |-> body[Slots[order[4]]],
     drug5 |-> body[Slots[order[5]]]]

\* PredictionRequest: drug1 and drug2 must be strings that are not blank.
SchemaAccepts(body) ==
    \A field \in {"drug1", "drug2"} :
        body[field] # None /\ Strip(body[field][1]) # <<>>

\* PredictionRequest: the validator returns v.strip() for drug1 and drug2; drug3,
\* drug4 and drug5 have no validator and stay as sent.
PredictionRequest(body) ==
    [drug1 |-> Some(Strip(body["drug1"][1])), drug2 |-> Some(Strip(body["drug2"][1])),
     drug3 |-> body["drug3"], drug4 |-> body["drug4"], drug5 |-> body["drug5"]]

InitOrder ==
    /\ raw_request \in {<<body>> : body \in OrderBodies}
    /\ earlier = <<>>
    /\ pc = "receive"
    /\ gemini_model = "none" /\ explainer_data = "missing"
    /\ NoRequest
    /\ PredictIdle /\ AuthIdle /\ AnalyticsIdle

NotOrdering == UNCHANGED <<gemini_model, explainer_data, refine_call, enrichment, refined,
                           sel_input, sel_sorted, name_in, name_out, prompt, predictVars,
                           authVars, analyticsVars>>

\* The body passes the schema and the handler starts on the validated request.
Receive ==
    /\ pc = "receive"
    /\ SchemaAccepts(raw_request[1])
    /\ request' = PredictionRequest(raw_request[1])
    /\ pc' = "collect"
    /\ UNCHANGED <<raw_request, earlier, drugs, unique_drugs, pairs, idx, results, outcome,
                   predict_calls, enrich_calls>>
    /\ NotOrdering

\* The body fails the schema: the handler is never entered.
RejectBody ==
    /\ pc = "receive"
    /\ ~SchemaAccepts(raw_request[1])
    /\ outcome' = Failure(422, "Unprocessable Entity")
    /\ pc' = "done"
    /\ UNCHANGED <<raw_request, earlier, request, drugs, unique_drugs, pairs, idx, results,
                   predict_calls, enrich_calls>>
    /\ NotOrdering

\* The client sends the same five values again, listed in another order; what the
\* first request gave is kept for comparison.
Resend ==
    /\ pc = "loop" /\ earlier = <<>>
    /\ \E order \in Orders :
          raw_request' = <<Permuted(raw_request[1], order)>>
    /\ earlier' = <<[body |-> raw_request[1], unique_drugs |-> unique_drugs,
                     pairs |-> pairs]>>
    /\ request' = <<>>
    /\ pc' = "receive"
    /\ drugs' = <<>> /\ unique_drugs' = <<>> /\ pairs' = <<>> /\ idx' = 0
    /\ UNCHANGED <<results, outcome, predict_calls, enrich_calls>>
    /\ NotOrdering

NextOrder == Receive \/ RejectBody \/ CollectDrugs \/ GeneratePairs \/ Resend

SpecOrder == InitOrder /\ [][NextOrder]_vars

\* C27: the analysis depends on the set of non-blank names, not on the order they are
\* listed in: the same five values sent in another order give the same pairs in the
\* same order.
C27_OrderIndependent ==
    (earlier # <<>> /\ pc = "loop") => pairs = earlier[1].pairs

(***************************************************************************)
(* Registration by one-time password (SpecAuth): routes/auth.py,            *)
(* services/auth_service.py, services/pending_registration_service.py.     *)
(* Each request handler is one action.                                       *)
(***************************************************************************)

Emails == {"ann@x.org", "bob@x.org"}

\* What email_service.generate_otp can return; a new code can repeat an old one.
Otps == {"111111", "222222"}

\* timedelta(minutes=10)
OtpLifetime == 10

\* The clock stops here.
MaxTime == 11

\* pending_registrations[email] = {...}: the name, the password hash and created_at
\* play no part in the verification and are left out.
store_pending_registration(pendings, email, otp, otp_expiry) ==
    Put(pendings, email, [otp |-> otp, otp_expiry |-> otp_expiry])

\* del pending_registrations[email], if it is there
remove_pending_registration(pendings, email) ==
    [e \in DOMAIN pendings \ {email} |-> pendings[e]]

\* A verification that compares no code.
VerifyWithoutComparison(pendings, email, otp, time) ==
    IF ~Has(pendings, email) THEN "none"
    ELSE IF time > pendings[email].otp_expiry THEN "expired"
    ELSE "ok"

\* PendingRegistrationService.verify_otp: what it finds; "expired" also removes
\* the pending registration.
verify_otp(pendings, email, otp, time) ==
    IF ~Has(pendings, email) THEN "none"
    ELSE IF time > pendings[email].otp_expiry THEN "expired"
    ELSE IF pendings[email].otp # otp THEN "invalid"
    ELSE "ok"

InitAuth ==
    /\ AuthIdle
    /\ pc = "auth"
    /\ gemini_model = "none" /\ explainer_data = "missing"
    /\ NoRequest
    /\ raw_request = <<>> /\ earlier = <<>> /\ PredictIdle /\ AnalyticsIdle

NotAuth == UNCHANGED <<request, gemini_model, explainer_data, pc, drugs, unique_drugs,
                       pairs, idx, results, outcome, predict_calls, enrich_calls,
                       refine_call, enrichment, refined, sel_input, sel_sorted, name_in,
                       name_out, prompt, raw_request, earlier, predictVars, analyticsVars>>

Called(op, email, otp, ok) == <<[op |-> op, email |-> email, otp |-> otp, ok |-> ok]>>

\* POST /register: send_registration_otp. It raises for an email that has an account
\* and for a weak password; otherwise it stores the pending registration with a new
\* code that expires in ten minutes. No user is added.
Register ==
    \E email \in Emails, strong \in BOOLEAN, otp \in Otps :
        /\ IF email \in users \/ ~strong
           THEN /\ UNCHANGED <<pending_registrations, issued>>
                /\ last_call' = Called("register", email, "", FALSE)
           ELSE /\ pending_registrations' =
                       store_pending_registration(pending_registrations, email, otp,
                                                  now + OtpLifetime)
                /\ issued' = Put(issued, email, otp)
                /\ last_call' = Called("register", email, "", TRUE)
        /\ UNCHANGED <<users, now>>
        /\ NotAuth

\* POST /resend-otp: resend_otp. Without a pending registration it fails; otherwise
\* it writes a new code and a new expiry into the pending registration.
ResendOtp ==
    \E email \in Emails, otp \in Otps :
        /\ IF ~Has(pending_registrations, email)
           THEN /\ UNCHANGED <<pending_registrations, issued>>
                /\ last_call' = Called("resend_otp", email, "", FALSE)
           ELSE /\ pending_registrations' =
                       [pending_registrations EXCEPT
                           ![email] = [otp |-> otp, otp_expiry |-> now + OtpLifetime]]
                /\ issued' = Put(issued, email, otp)
                /\ last_call' = Called("resend_otp", email, "", TRUE)
        /\ UNCHANGED <<users, now>>
        /\ NotAuth

\* POST /verify-otp: verify_otp_and_create_user. committed_ok is whether db.commit()
\* of the new user goes through.
VerifyOtp ==
    \E email \in Emails, otp \in Otps, committed_ok \in BOOLEAN :
        LET found == verify_otp(pending_registrations, email, otp, now)
        IN  /\ IF found \in {"none", "invalid"}
               THEN /\ UNCHANGED <<pending_registrations, users>>
                    /\ last_call' = Called("verify_otp", email, otp, FALSE)
               ELSE IF found = "expired" \/ email \in users
               THEN /\ pending_registrations' =
                           remove_pending_registration(pending_registrations, email)
                    /\ users' = users
                    /\ last_call' = Called("verify_otp", email, otp, FALSE)
               ELSE IF committed_ok
               THEN /\ users' = users \cup {email}
                    /\ pending_registrations' =
                           remove_pending_registration(pending_registrations, email)
                    /\ last_call' = Called("verify_otp", email, otp, TRUE)
               ELSE /\ UNCHANGED <<pending_registrations, users>>
                    /\ last_call' = Called("verify_otp", email, otp, FALSE)
            /\ UNCHANGED <<now, issued>>
            /\ NotAuth

\* A minute passes.
Tick ==
    /\ pc = "auth" /\ now < MaxTime
    /\ now' = now + 1
    /\ UNCHANGED <<pending_registrations, users, issued, last_call>>
    /\ NotAuth

NextAuth == (pc = "auth" /\ (Register \/ ResendOtp \/ VerifyOtp)) \/ Tick

SpecAuth == InitAuth /\ [][NextAuth]_vars

\* C26: an account for an email is created only by verify-otp called with the code
\* stored for that email's pending registration, which is the code issued last by
\* register or resend-otp, and not after that code's expiry; register and resend-otp
\* create no account; and the step that creates the account removes the pending
\* registration, so that no code can be verified for the email any more.
C26_AccountOnlyByCurrentOtp ==
    [][/\ users' # users =>
             \E email \in Emails :
                /\ email \notin users /\ users' = users \cup {email}
                /\ last_call' = Called("verify_otp", email, last_call'[1].otp, TRUE)
                /\ Has(pending_registrations, email)
                /\ last_call'[1].otp = pending_registrations[email].otp
                /\ Has(issued, email) /\ last_call'[1].otp = issued[email]
                /\ now <= pending_registrations[email].otp_expiry
                /\ ~Has(pending_registrations', email)
                /\ \A otp \in Otps :
                      verify_otp(pending_registrations', email, otp, now') = "none"
       /\ (last_call' # last_call /\ last_call'[1].op \in {"register", "resend_otp"})
             => users' = users]_vars

\* C26 witness: an account exists that was created with the code of a resend, not
\* the code of the registration, and its pending registration is gone.
C26_Witness ==
    /\ last_call # <<>>
    /\ last_call[1].op = "verify_otp" /\ last_call[1].ok
    /\ last_call[1].email \in users
    /\ ~Has(pending_registrations, last_call[1].email)
    /\ issued[last_call[1].email] = last_call[1].otp
    /\ now > OtpLifetime

(***************************************************************************)
(* The analytics of authenticated predictions (SpecAnalytics):              *)
(* ddi_service.py lines 249-321, one prediction after the other             *)
(***************************************************************************)

\* How many predictions a run makes.
MaxPredictions == 3

\* The pairs the handler passes to the predictor: two names that differ after
\* normalization.
AnalyticsPairs ==
    {pair \in {<<<<"A">>, <<"b">>>>, <<<<"b">>, <<"A">>>>, <<<<"A">>, <<"c">>>>,
               <<<<"A">>, <<"a">>>>} :
        validate_drug_input(pair[1], pair[2])}

\* An update that counts a Low prediction in no risk column.
UpdatedWithoutLow(table, drug_name, risk_level) ==
    LET row == IF Has(table, drug_name) THEN table[drug_name]
               ELSE [total_checks |-> 0, high_risk_count |-> 0,
                     moderate_risk_count |-> 0, low_risk_count |-> 0]
    IN  Put(table, drug_name,
            [total_checks |-> row.total_checks + 1,
             high_risk_count |-> row.high_risk_count + (IF risk_level = "High" THEN 1 ELSE 0),
             moderate_risk_count |->
                 row.moderate_risk_count + (IF risk_level = "Moderate" THEN 1 ELSE 0),
             low_risk_count |-> row.low_risk_count])

\* Lines 293-314, for one drug_name: the row that exists is incremented, a missing
\* row is created with its first check.
UpdateAnalytics(table, drug_name, risk_level) ==
    IF Has(table, drug_name)
    THEN LET analytics == table[drug_name]
         IN  Put(table, drug_name,
                 [total_checks |-> analytics.total_checks + 1,
                  high_risk_count |->
                      analytics.high_risk_count + (IF risk_level = "High" THEN 1 ELSE 0),
                  moderate_risk_count |->
                      analytics.moderate_risk_count
                          + (IF risk_level = "Moderate" THEN 1 ELSE 0),
                  low_risk_count |->
                      analytics.low_risk_count
                          + (IF risk_level \notin {"High", "Moderate"} THEN 1 ELSE 0)])
    ELSE Put(table, drug_name,
             [total_checks |-> 1,
              high_risk_count |-> IF risk_level = "High" THEN 1 ELSE 0,
              moderate_risk_count |-> IF risk_level = "Moderate" THEN 1 ELSE 0,
              low_risk_count |-> IF risk_level = "Low" THEN 1 ELSE 0])

\* for drug_name in [drug1, drug2]
UpdateBoth(table, drug1, drug2, risk_level) ==
    UpdateAnalytics(UpdateAnalytics(table, drug1, risk_level), drug2, risk_level)

InitAnalytics ==
    /\ AnalyticsIdle
    /\ pc = "analytics"
    /\ gemini_model = "none" /\ explainer_data = "missing"
    /\ NoRequest
    /\ raw_request = <<>> /\ earlier = <<>> /\ PredictIdle /\ AuthIdle

NotAnalytics == UNCHANGED <<request, gemini_model, explainer_data, pc, drugs, unique_drugs,
                            pairs, idx, results, outcome, predict_calls, enrich_calls,
                            refine_call, enrichment, refined, sel_input, sel_sorted,
                            name_in, name_out, prompt, raw_request, earlier, predictVars,
                            authVars>>

Logged(pair, risk_level, done) ==
    Append(committed, [drug1 |-> pair[1], drug2 |-> pair[2], risk_level |-> risk_level,
                       committed |-> done])

\* An authenticated prediction whose persistence step reaches db_session.commit().
PersistCommit ==
    /\ pc = "analytics" /\ Len(committed) < MaxPredictions
    /\ \E pair \in AnalyticsPairs, proba \in Probas :
          LET risk_level == calculate_risk_level(proba)
          IN  /\ drug_analytics' = UpdateBoth(drug_analytics, pair[1], pair[2], risk_level)
              /\ committed' = Logged(pair, risk_level, TRUE)
    /\ NotAnalytics

\* An authenticated prediction whose persistence step raises: db_session.rollback()
\* undoes whatever the step had added or changed.
PersistRollback ==
    /\ pc = "analytics" /\ Len(committed) < MaxPredictions
    /\ \E pair \in AnalyticsPairs, proba \in Probas :
          committed' = Logged(pair, calculate_risk_level(proba), FALSE)
    /\ drug_analytics' = drug_analytics
    /\ NotAnalytics

NextAnalytics == PersistCommit \/ PersistRollback

SpecAnalytics == InitAnalytics /\ [][NextAnalytics]_vars

\* The committed predictions that involve drug_name and have one of the risk levels.
CommittedChecks(drug_name, levels) ==
    Cardinality({i \in 1..Len(committed) :
                    /\ committed[i].committed
                    /\ drug_name \in {committed[i].drug1, committed[i].drug2}
                    /\ committed[i].risk_level \in levels})

RiskLevels == {"High", "Moderate", "Low"}

\* C30: after any sequence of authenticated predictions, committed or rolled back,
\* every analytics record has total_checks = high_risk_count + moderate_risk_count
\* + low_risk_count, and its total_checks is the number of committed predictions
\* that involve its drug: each of them added exactly 1 for each of its two drugs,
\* and a rolled back one added nothing.
C30_AnalyticsCounts ==
    /\ \A drug_name \in DOMAIN drug_analytics :
          LET row == drug_analytics[drug_name]
          IN  /\ row.total_checks
                    = row.high_risk_count + row.moderate_risk_count + row.low_risk_count
              /\ row.total_checks = CommittedChecks(drug_name, RiskLevels)
              /\ row.total_checks > 0
    /\ \A i \in 1..Len(committed) :
          committed[i].committed =>
              /\ Has(drug_analytics, committed[i].drug1)
              /\ Has(drug_analytics, committed[i].drug2)

\* C30 witness: a record that was created by one committed prediction and
\* incremented by a later one, with a rolled back prediction of the same drug in
\* between, and with a Low prediction among those counted.
C30_Witness ==
    /\ Len(committed) = MaxPredictions
    /\ committed[1].committed /\ ~committed[2].committed /\ committed[3].committed
    /\ committed[1].drug1 = committed[2].drug1
    /\ committed[1].drug1 = committed[3].drug2
    /\ drug_analytics[committed[1].drug1].total_checks = 2
    /\ drug_analytics[committed[1].drug1].low_risk_count = 1
    /\ drug_analytics[committed[1].drug1].high_risk_count = 1

====
